---- MODULE Spec2Model ----
(***************************************************************************)
(* Treasure-hunt backend: the callable functions (claim, setUserRole,      *)
(* setTeamGroup, bulkImportUsers, setFreezeState, generateLocationQr),     *)
(* the token codec they share and the documents they read and write.       *)
(*                                                                         *)
(* Strings that the code splits, joins, signs or parses (tokens, payloads, *)
(* signatures, location ids) are sequences of one-character strings.       *)
(* Strings that are only compared (keywords, tags, uids, role names) are   *)
(* TLA+ strings.                                                           *)
(***************************************************************************)
EXTENDS Integers, Sequences, FiniteSets, Bags, TLC

(***************************************************************************)
(* Bounds of the model.                                                    *)
(***************************************************************************)
MaxNow == 2
MaxCalls == 3
MaxGateCalls == 1
MaxProcs == 2
MaxRows == 2
MaxBulkRows == 3

(***************************************************************************)
(* Characters and strings.                                                 *)
(***************************************************************************)
PIPE == "|"

Digits == <<"0", "1", "2", "3", "4", "5", "6", "7", "8", "9">>

HexDigits == <<"0", "1", "2", "3", "4", "5", "6", "7", "8", "9",
               "a", "b", "c", "d", "e", "f">>

\* The byte value of each character the model uses (its ASCII code).
CharCode ==
  [c \in {"|", "0", "1", "2", "3", "4", "5", "6", "7", "8", "9",
          "a", "b", "c", "d", "e", "f", "L", "n", "s", "k", "z"} |->
     CASE c = "|" -> 124
       [] c = "0" -> 48 [] c = "1" -> 49 [] c = "2" -> 50 [] c = "3" -> 51
       [] c = "4" -> 52 [] c = "5" -> 53 [] c = "6" -> 54 [] c = "7" -> 55
       [] c = "8" -> 56 [] c = "9" -> 57
       [] c = "a" -> 97 [] c = "b" -> 98 [] c = "c" -> 99 [] c = "d" -> 100
       [] c = "e" -> 101 [] c = "f" -> 102
       [] c = "L" -> 76 [] c = "n" -> 110 [] c = "s" -> 115 [] c = "k" -> 107
       [] c = "z" -> 122]

\* String.prototype.split('|'): the fields between the separators; a string
\* with k separators has k + 1 fields, empty fields included.
RECURSIVE SplitFrom(_, _, _)
SplitFrom(s, i, cur) ==
  IF i > Len(s) THEN <<cur>>
  ELSE IF s[i] = PIPE THEN <<cur>> \o SplitFrom(s, i + 1, <<>>)
  ELSE SplitFrom(s, i + 1, Append(cur, s[i]))

Split(s) == SplitFrom(s, 1, <<>>)

\* The template literal `${a}|${b}|${c}`.
Join3(a, b, c) == a \o <<PIPE>> \o b \o <<PIPE>> \o c

\* Number.prototype.toString for a non-negative integer (decimal digits).
RECURSIVE ToDecimal(_)
ToDecimal(n) ==
  IF n < 10 THEN <<Digits[n + 1]>>
  ELSE ToDecimal(n \div 10) \o <<Digits[(n % 10) + 1]>>

DigitValue(c) == CHOOSE d \in 0..9 : Digits[d + 1] = c

IsDigit(c) == \E d \in 1..10 : Digits[d] = c

\* Number(str) over the model's characters: the empty string is 0, a string
\* of decimal digits is its value, anything else is NaN (modelled as -1,
\* which Number.isFinite rejects).
NaN == -1

RECURSIVE DecimalValue(_)
DecimalValue(s) ==
  IF Len(s) = 0 THEN 0
  ELSE 10 * DecimalValue(SubSeq(s, 1, Len(s) - 1)) + DigitValue(s[Len(s)])

NumberOf(s) ==
  IF \A i \in 1..Len(s) : IsDigit(s[i]) THEN DecimalValue(s) ELSE NaN

NumberIsFinite(x) == x # NaN

(***************************************************************************)
(* Token codec.                                                            *)
(***************************************************************************)
NoSecret == <<>>

\* getQrSecret: process.env.QR_SECRET, or failed-precondition when unset.
getQrSecretOk(secret) == secret # NoSecret

\* digest('hex'): two lower-case hex digits per byte.
RECURSIVE HexEncode(_)
HexEncode(bytes) ==
  IF Len(bytes) = 0 THEN <<>>
  ELSE <<HexDigits[(CharCode[Head(bytes)] \div 16) + 1],
         HexDigits[(CharCode[Head(bytes)] % 16) + 1]>> \o HexEncode(Tail(bytes))

\* createHmac('sha256', secret).update(payload).digest('hex').  HMAC-SHA256
\* is modelled as an ideal keyed function: its hex digest determines the
\* pair (secret, payload) -- no two pairs collide -- and is made of hex
\* digits only.
signPayload(secret, payload) == HexEncode(secret \o <<PIPE>> \o payload)

\* A plausible slip: the lengths are compared, the bytes are not.
cryptoSafeEqualLengthOnly(a, b) == Len(a) = Len(b)

\* cryptoSafeEqual: lengths first, then the bytes.
cryptoSafeEqual(a, b) ==
  IF Len(a) # Len(b) THEN FALSE
  ELSE \A i \in 1..Len(a) : CharCode[a[i]] = CharCode[b[i]]

\* A plausible slip: the expiry is appended to the token but not signed.
BuildTokenExpUnsigned(secret, locationId, nonce, expEpoch) ==
  Join3(locationId, nonce, ToDecimal(expEpoch)) \o <<PIPE>>
    \o signPayload(secret, locationId \o <<PIPE>> \o nonce)

\* generateLocationQr, token construction: payload = locationId|nonce|expEpoch,
\* token = payload|signature.
BuildToken(secret, locationId, nonce, expEpoch) ==
  LET payload == Join3(locationId, nonce, ToDecimal(expEpoch))
  IN  payload \o <<PIPE>> \o signPayload(secret, payload)

ParseFail(code, message) ==
  [ok |-> FALSE, code |-> code, message |-> message,
   locationId |-> <<>>, nonce |-> <<>>, expMillis |-> NaN]

\* A plausible slip: the token is refused from its expiry instant on.
TokenExpiredAtExpiry(dateNow, expNumber) == dateNow >= expNumber

\* parseToken, the expiry test: Date.now() > expNumber.
TokenExpired(dateNow, expNumber) == dateNow > expNumber

\* parseToken, with the secret and Date.now() made explicit.
parseToken(token, secret, dateNow) ==
  LET parts == Split(token) IN
  IF Len(parts) # 4 THEN ParseFail("invalid-argument", "Invalid token format.")
  ELSE
    LET locationId == parts[1]
        nonce == parts[2]
        exp == parts[3]
        signature == parts[4]
        payload == Join3(locationId, nonce, exp)
    IN
    IF ~getQrSecretOk(secret)
      THEN ParseFail("failed-precondition", "QR secret is not configured on the server.")
    ELSE IF ~cryptoSafeEqual(signature, signPayload(secret, payload))
      THEN ParseFail("permission-denied", "Invalid token signature.")
    ELSE IF ~NumberIsFinite(NumberOf(exp))
      THEN ParseFail("invalid-argument", "Invalid token expiration.")
    ELSE IF TokenExpired(dateNow, NumberOf(exp))
      THEN ParseFail("permission-denied", "Token has expired.")
    ELSE [ok |-> TRUE, code |-> "ok", message |-> "",
          locationId |-> locationId, nonce |-> nonce, expMillis |-> NumberOf(exp)]

(***************************************************************************)
(* Fixed data: the Firebase Auth users, the secret, the static documents.  *)
(***************************************************************************)
\* process.env.QR_SECRET of the deployed functions.
QrSecret == <<"s">>

AdminUid == "adm"
Users == {"adm", "u1", "u2"}
NoUid == ""
Callers == Users \cup {NoUid}
Roles == {"leader", "admin"}
NoRole == "none"

EmailOf(u) == IF u = "adm" THEN "adm@x" ELSE IF u = "u1" THEN "u1@x" ELSE "u2@x"

Loc1 == <<"L", "1">>
Loc2 == <<"L", "2">>
LocIds == {Loc1, Loc2}

NoDoc == [exists |-> FALSE]

NoMatch == ""
NoGroup == ""

NoTime == -1

MatchIds == {"m1", "m2"}
GroupIds == {"g1", "g2"}

\* Documents in the order a collection read returns them (by document id).
MatchOrder == <<"m1", "m2">>
GroupOrder == <<"g1", "g2">>
TeamOrder == <<"adm", "u1", "u2">>
LocOrder == <<<<"L", "1">>, <<"L", "2">>>>

MatchDocs ==
  [m \in MatchIds |->
     [exists |-> TRUE, name |-> IF m = "m1" THEN "M1" ELSE "M2",
      order |-> IF m = "m1" THEN 1 ELSE 2, isActive |-> TRUE]]

GroupDocs ==
  [g \in GroupIds |->
     [exists |-> TRUE,
      matchId |-> IF g = "g1" THEN "m1" ELSE "m2",
      name |-> IF g = "g1" THEN "G1" ELSE "G2",
      order |-> 1,
      startAt |-> IF g = "g1" THEN 0 ELSE NoTime,
      endAt |-> NoTime,
      isActive |-> TRUE]]

\* settings/runtime as the admin console leaves it before the event.
SettingsDoc ==
  [exists |-> TRUE, eventStart |-> 0, freezeAt |-> 1, eventEnd |-> 2,
   hasFreezeOverride |-> FALSE, freezeOverride |-> FALSE, updatedAt |-> NoTime]

LocationDocs ==
  [l \in LocIds |->
     IF l = Loc1
       THEN [exists |-> TRUE, matchId |-> "m1", boxKeyword |-> "k1", isActive |-> TRUE,
             basePoints |-> 100, difficulty |-> 2, difficultyDen |-> 1]
       ELSE [exists |-> TRUE, matchId |-> "m2", boxKeyword |-> "k2", isActive |-> TRUE,
             basePoints |-> 150, difficulty |-> 0, difficultyDen |-> 1]]

\* Strings a client may send as a token: the QR codes printed for the two
\* locations (one of them expiring at time 0), a token signed with another
\* secret, a token for a location that does not exist and a malformed string.
TokenPool ==
  {BuildToken(QrSecret, Loc1, <<"n">>, 9),
   BuildToken(QrSecret, Loc2, <<"n">>, 9),
   BuildToken(QrSecret, Loc1, <<"n">>, 0),
   BuildToken(<<"z">>, Loc1, <<"n">>, 9),
   BuildToken(QrSecret, <<"L", "9">>, <<"n">>, 9),
   <<"L", "1", "|", "n">>}

NoToken == <<>>
Keywords == {"k1", "k2"}
Tags == {"tA", "tB"}
Missing == ""

(***************************************************************************)
(* State.                                                                  *)
(***************************************************************************)
VARIABLES
  now,          \* Date.now() / Timestamp.now()
  roleOf,       \* the role custom claim of each Auth user
  teams,        \* collection teams, keyed by uid
  claims,       \* collection claims (auto-id documents): a bag of records
  locations,    \* collection locations
  matches,      \* collection matches
  groups,       \* collection groups
  settings,     \* document settings/runtime
  leaderboard,  \* document leaderboard_public/runtime
  procs,        \* the request handlers in flight
  calls,        \* number of requests still to come
  tok           \* a token under test: issued, possibly altered, verified

sysvars == <<now, roleOf, teams, claims, locations, matches, groups, settings,
             leaderboard, procs, calls>>

vars == <<sysvars, tok>>

Procs == 1..MaxProcs

IdleProc == [op |-> "idle", pc |-> "idle"]

DocOf(coll, id) == IF id \in DOMAIN coll THEN coll[id] ELSE NoDoc

\* A plausible slip: any signed-in caller with some role passes.
requireRoleAnyRole(uid, role, roles) == uid # NoUid /\ role # NoRole

\* requireRole: the caller's uid and role, or permission-denied.
requireRole(uid, role, roles) == uid # NoUid /\ role # NoRole /\ role \in roles

\* sanitizeRole: the role itself when it is leader, admin or none, else null.
sanitizeRole(input) ==
  IF input = Missing THEN "null"
  ELSE IF input \in {"leader", "admin", "none"} THEN input
  ELSE "null"

\* Math.round for a non-negative rational num/den (halves round up).
RoundDiv(num, den) == (2 * num + den) \div (2 * den)

Max(a, b) == IF a >= b THEN a ELSE b

\* computePoints: basePoints * (difficulty > 0 ? difficulty : 1), rounded,
\* not below 0; failed-precondition when basePoints is not positive.  The
\* number difficulty of a location is the fraction difficulty/difficultyDen.
computePointsOk(location) == location.basePoints > 0

\* A plausible slip: the difficulty is taken as it is stored.
computePointsRawDifficulty(location) ==
  Max(0, RoundDiv(location.basePoints * location.difficulty, location.difficultyDen))

computePoints(location) ==
  LET d == IF location.difficulty > 0
             THEN [num |-> location.difficulty, den |-> location.difficultyDen]
             ELSE [num |-> 1, den |-> 1]
  IN  Max(0, RoundDiv(location.basePoints * d.num, d.den))

\* request.auth of a call made by `caller`: the uid and the role claim of
\* the caller's ID token.
RoleClaim(caller) == IF caller = NoUid THEN NoRole ELSE roleOf[caller]

NoOut == [none |-> TRUE]

\* A handler that starts, with its request and its local variables.
Running(op, pc, uid, role, req, loc) ==
  [op |-> op, pc |-> pc, uid |-> uid, role |-> role, req |-> req, loc |-> loc,
   code |-> "", out |-> NoOut]

\* A handler that has answered: an HttpsError code, or "ok" with its response.
Answered(op, uid, role, req, code, out) ==
  [op |-> op, pc |-> "done", uid |-> uid, role |-> role, req |-> req, loc |-> NoOut,
   code |-> code, out |-> out]

Rejected(op, uid, role, code) == Answered(op, uid, role, NoOut, code, NoOut)

\* The handlers in flight or answered of one operation.
ProcsOf(op) == {p \in Procs : procs[p].op = op}

\* Sending a response is a step local to its handler: while requests are
\* still to come it is taken before any other handler moves on.
ResponsesSent == \A p \in Procs : procs[p].pc = "done" => calls = 0

\* A request is taken by the lowest free handler slot, once the responses
\* due have been sent.
StartOk(p) ==
  /\ ResponsesSent
  /\ procs[p].pc = "idle"
  /\ calls > 0
  /\ \A q \in Procs : q < p => procs[q].pc # "idle"

\* Handler p of operation op stands at pc.
At(p, op, pc) == ResponsesSent /\ procs[p].op = op /\ procs[p].pc = pc

(***************************************************************************)
(* claim                                                                   *)
(***************************************************************************)
\* claim, up to db.runTransaction: requireRole, the argument checks and
\* parseToken.
ClaimCall(p, caller, token, providedKeyword, providedTeamTag) ==
  /\ StartOk(p)
  /\ calls' = calls - 1
  /\ LET role == RoleClaim(caller)
         tokenInfo == parseToken(token, QrSecret, now)
     IN procs' = [procs EXCEPT ![p] =
          IF ~requireRole(caller, role, {"leader", "admin"})
            THEN Rejected("claim", caller, role, "permission-denied")
          ELSE IF token = NoToken \/ providedKeyword = Missing \/ providedTeamTag = Missing
            THEN Rejected("claim", caller, role, "invalid-argument")
          ELSE IF ~tokenInfo.ok
            THEN Rejected("claim", caller, role, tokenInfo.code)
          ELSE Running("claim", "claim_txget", caller, role,
                       [locationId |-> tokenInfo.locationId,
                        providedKeyword |-> providedKeyword,
                        providedTeamTag |-> providedTeamTag],
                       NoOut)]
  /\ UNCHANGED <<tok, now, roleOf, teams, claims, locations, matches, groups, settings,
                 leaderboard>>

\* A plausible slip: the team looked up by the tag of the payload.
ClaimTeamRefByTag(p) ==
  IF \E u \in Users : teams[u].exists /\ teams[u].teamTag = procs[p].req.providedTeamTag
    THEN CHOOSE u \in Users :
           teams[u].exists /\ teams[u].teamTag = procs[p].req.providedTeamTag
    ELSE procs[p].uid

\* teamRef = db.collection('teams').doc(uid): the caller's own team.
ClaimTeamRef(p) == procs[p].uid

\* The transaction's reads: tx.get(teamRef) and tx.get(locationRef).
ClaimTxGet(p) ==
  /\ At(p, "claim", "claim_txget")
  /\ procs' = [procs EXCEPT ![p].pc = "claim_txcommit",
                            ![p].loc = [teamSnap |-> DocOf(teams, ClaimTeamRef(p)),
                                        locationSnap |-> DocOf(locations, procs[p].req.locationId)]]
  /\ UNCHANGED <<tok, now, roleOf, teams, claims, locations, matches, groups, settings,
                 leaderboard, calls>>

\* A plausible slip: the solved map is tested before the tag and the keyword.
ClaimCheckSolvedFirst(teamSnap, locationSnap, locationId, providedKeyword, providedTeamTag) ==
  IF ~teamSnap.exists THEN "failed-precondition"
  ELSE IF ~locationSnap.exists THEN "not-found"
  ELSE IF teamSnap.matchId # NoMatch /\ locationSnap.matchId # NoMatch
          /\ teamSnap.matchId # locationSnap.matchId THEN "permission-denied"
  ELSE IF locationId \in DOMAIN teamSnap.solved THEN "already-exists"
  ELSE IF teamSnap.teamTag # providedTeamTag THEN "permission-denied"
  ELSE IF locationSnap.boxKeyword # providedKeyword THEN "permission-denied"
  ELSE IF locationSnap.isActive = FALSE THEN "failed-precondition"
  ELSE IF ~computePointsOk(locationSnap) THEN "failed-precondition"
  ELSE "ok"

\* The checks of the transaction body on the documents it read: the error
\* code of the first failing check, or "ok".
ClaimCheck(teamSnap, locationSnap, locationId, providedKeyword, providedTeamTag) ==
  IF ~teamSnap.exists THEN "failed-precondition"
  ELSE IF ~locationSnap.exists THEN "not-found"
  ELSE IF teamSnap.matchId # NoMatch /\ locationSnap.matchId # NoMatch
          /\ teamSnap.matchId # locationSnap.matchId THEN "permission-denied"
  ELSE IF teamSnap.teamTag # providedTeamTag THEN "permission-denied"
  ELSE IF locationSnap.boxKeyword # providedKeyword THEN "permission-denied"
  ELSE IF locationSnap.isActive = FALSE THEN "failed-precondition"
  ELSE IF locationId \in DOMAIN teamSnap.solved THEN "already-exists"
  ELSE IF ~computePointsOk(locationSnap) THEN "failed-precondition"
  ELSE "ok"

\* A plausible slip: the score is incremented, the solved entry forgotten.
ClaimTeamUpdateScoreOnly(team, locationId, awardedPoints, at) ==
  [team EXCEPT !.score = @ + awardedPoints, !.updatedAt = at]

\* tx.update(teamRef, {score: increment(points), solved.<loc>: {at, points}, updatedAt}).
ClaimTeamUpdate(team, locationId, awardedPoints, at) ==
  [team EXCEPT !.score = @ + awardedPoints,
               !.hasSolved = TRUE,
               !.solved = [l \in (DOMAIN @) \cup {locationId} |->
                             IF l = locationId THEN [at |-> at, points |-> awardedPoints]
                             ELSE @[l]],
               !.updatedAt = at]

\* tx.set(db.collection('claims').doc(), {...}).
ClaimRecord(uid, locationId, awardedPoints, at, role) ==
  [teamId |-> uid, locationId |-> locationId, points |-> awardedPoints,
   processedAt |-> at, processedBy |-> role]

\* A plausible slip: plain reads and writes, no transaction.
TxConflictIgnored(p) == FALSE

\* db.runTransaction: a document read by the transaction was written by
\* someone else before the commit.
TxConflict(p) ==
  \/ DocOf(teams, ClaimTeamRef(p)) # procs[p].loc.teamSnap
  \/ DocOf(locations, procs[p].req.locationId) # procs[p].loc.locationSnap

\* The transaction body and its commit.  A check that fails throws and the
\* transaction writes nothing.  Otherwise the writes commit together, unless a
\* document the transaction read has changed since: then the body runs again.
\* On success the response {locationId, pointsAwarded} is fixed and the
\* refresh follows.
ClaimTxCommit(p) ==
  /\ At(p, "claim", "claim_txcommit")
  /\ LET me == procs[p]
         locationId == me.req.locationId
         verdict == ClaimCheck(me.loc.teamSnap, me.loc.locationSnap, locationId,
                               me.req.providedKeyword, me.req.providedTeamTag)
         awardedPoints == computePoints(me.loc.locationSnap)
     IN
     IF verdict # "ok"
       THEN /\ procs' = [procs EXCEPT ![p] = Answered("claim", me.uid, me.role, me.req, verdict, NoOut)]
            /\ UNCHANGED <<teams, claims>>
     ELSE IF TxConflict(p)
       THEN /\ procs' = [procs EXCEPT ![p].pc = "claim_txget", ![p].loc = NoOut]
            /\ UNCHANGED <<teams, claims>>
     ELSE /\ teams' = [teams EXCEPT ![ClaimTeamRef(p)] =
                         ClaimTeamUpdate(@, locationId, awardedPoints, now)]
          /\ claims' = claims (+) SetToBag({ClaimRecord(me.uid, locationId, awardedPoints,
                                                         now, me.role)})
          /\ procs' = [procs EXCEPT ![p].pc = "refresh",
                                    ![p].loc = NoOut,
                                    ![p].out = [locationId |-> locationId,
                                                pointsAwarded |-> awardedPoints]]
  /\ UNCHANGED <<tok, now, roleOf, locations, matches, groups, settings, leaderboard, calls>>

(***************************************************************************)
(* updatePublicLeaderboard                                                 *)
(***************************************************************************)
FallbackId == "__unassigned__"
FallbackName == "unassigned"
MaxSafeInteger == 1000000

\* String.prototype.localeCompare on the team names of the model.
NameRank(n) == IF n = "Blue" THEN 1 ELSE IF n = "Red" THEN 2 ELSE 3

localeCompare(a, b) ==
  IF NameRank(a) < NameRank(b) THEN -1 ELSE IF NameRank(a) > NameRank(b) THEN 1 ELSE 0

\* createFallbackStructures: the sentinel group.
fallbackGroup ==
  [id |-> FallbackId, matchId |-> FallbackId, name |-> FallbackName,
   order |-> MaxSafeInteger, startAt |-> NoTime, endAt |-> NoTime, isActive |-> TRUE]

\* matchMap: the ids of the matches read.
MatchMapIds(ms) == {m \in DOMAIN ms : ms[m].exists}

\* groupMap: the groups whose matchId names a match that was read.
GroupMapIds(ms, gs) ==
  {g \in DOMAIN gs : gs[g].exists /\ gs[g].matchId # NoMatch /\ gs[g].matchId \in MatchMapIds(ms)}

ScoreboardGroupOf(gs, g) ==
  [id |-> g, matchId |-> gs[g].matchId, name |-> gs[g].name, order |-> gs[g].order,
   startAt |-> gs[g].startAt, endAt |-> gs[g].endAt, isActive |-> gs[g].isActive]

\* locationMatchMap.get(locId) ?? fallbackMatch.id
MatchKeyOf(ls, l) ==
  IF l \in DOMAIN ls /\ ls[l].exists /\ ls[l].matchId # NoMatch THEN ls[l].matchId
  ELSE FallbackId

RECURSIVE SumPoints(_, _)
SumPoints(solved, ls) ==
  IF ls = {} THEN 0
  ELSE LET l == CHOOSE x \in ls : TRUE IN solved[l].points + SumPoints(solved, ls \ {l})

RECURSIVE MaxAt(_, _)
MaxAt(solved, ls) ==
  IF ls = {} THEN NoTime
  ELSE LET l == CHOOSE x \in ls : TRUE IN Max(solved[l].at, MaxAt(solved, ls \ {l}))

StatOver(solved, ls) ==
  [points |-> SumPoints(solved, ls), lastSolve |-> MaxAt(solved, ls),
   solvedCount |-> Cardinality(ls)]

\* A plausible slip: a key with no solved location falls back to the
\* overall totals, whichever match it names.
MatchStatOfOverall(solved, ls, key) ==
  LET keyed == {l \in DOMAIN solved : MatchKeyOf(ls, l) = key} IN
  IF keyed # {} THEN StatOver(solved, keyed) ELSE StatOver(solved, DOMAIN solved)

\* matchStats.get(key) of one team, the fallback key holding the overall
\* totals unless some solved location is itself keyed by the fallback id.
MatchStatOf(solved, ls, key) ==
  LET keyed == {l \in DOMAIN solved : MatchKeyOf(ls, l) = key} IN
  IF keyed # {} THEN StatOver(solved, keyed)
  ELSE IF key = FallbackId THEN StatOver(solved, DOMAIN solved)
  ELSE [points |-> 0, lastSolve |-> NoTime, solvedCount |-> 0]

\* A plausible slip: a group is taken as read although its match is
\* missing.
TargetGroupOfAnyGroup(ms, gs, team) ==
  IF team.groupId # NoGroup /\ team.groupId \in DOMAIN gs /\ gs[team.groupId].exists
    THEN ScoreboardGroupOf(gs, team.groupId)
    ELSE fallbackGroup

\* The group a team is listed under.
TargetGroupOf(ms, gs, team) ==
  IF team.groupId # NoGroup /\ team.groupId \in GroupMapIds(ms, gs)
    THEN ScoreboardGroupOf(gs, team.groupId)
    ELSE fallbackGroup

\* The instants of the model are half seconds.
TickMillis == 500

\* Timestamp.toMillis()
toMillis(t) == t * TickMillis

\* A plausible slip: the difference is rounded and not held at 0.
ElapsedSecondsSigned(lastSolve, startAt) ==
  (2 * (lastSolve - startAt) + 1000) \div 2000

\* Math.max(0, Math.round((lastSolve - startAt) / 1000)), both in
\* milliseconds.
ElapsedSeconds(lastSolve, startAt) ==
  IF lastSolve - startAt <= 0 THEN 0 ELSE RoundDiv(lastSolve - startAt, 1000)

\* The entry of one team.
EntryOf(ms, gs, ls, uid, team) ==
  LET targetGroup == TargetGroupOf(ms, gs, team)
      targetStats == MatchStatOf(team.solved, ls, targetGroup.matchId)
  IN [teamId |-> uid,
      teamName |-> team.name,
      score |-> targetStats.points,
      lastSolveAt |-> targetStats.lastSolve,
      elapsedSeconds |-> IF targetGroup.startAt # NoTime /\ targetStats.lastSolve # NoTime
                           THEN ElapsedSeconds(toMillis(targetStats.lastSolve),
                                               toMillis(targetGroup.startAt))
                           ELSE NoTime,
      solvedCount |-> targetStats.solvedCount]

\* A team that makes the fallback match part of the output.
UsesFallback(ms, gs, team) ==
  \/ ~(team.matchId # NoMatch /\ team.matchId \in MatchMapIds(ms))
  \/ ~(team.groupId # NoGroup /\ team.groupId \in GroupMapIds(ms, gs))

entrySorter(a, b) ==
  IF b.score # a.score THEN b.score - a.score
  ELSE IF a.elapsedSeconds # NoTime /\ b.elapsedSeconds # NoTime
          /\ a.elapsedSeconds # b.elapsedSeconds THEN a.elapsedSeconds - b.elapsedSeconds
  ELSE IF a.elapsedSeconds # NoTime /\ b.elapsedSeconds = NoTime THEN -1
  ELSE IF a.elapsedSeconds = NoTime /\ b.elapsedSeconds # NoTime THEN 1
  ELSE IF a.lastSolveAt # NoTime /\ b.lastSolveAt # NoTime THEN a.lastSolveAt - b.lastSolveAt
  ELSE IF a.lastSolveAt # NoTime THEN -1
  ELSE IF b.lastSolveAt # NoTime THEN 1
  ELSE localeCompare(a.teamName, b.teamName)

\* Array.prototype.sort is stable: an element goes after every element that
\* does not compare greater than it.
RECURSIVE InsertEntry(_, _)
InsertEntry(sorted, e) ==
  IF Len(sorted) = 0 THEN <<e>>
  ELSE IF entrySorter(sorted[Len(sorted)], e) > 0
    THEN Append(InsertEntry(SubSeq(sorted, 1, Len(sorted) - 1), e), sorted[Len(sorted)])
    ELSE Append(sorted, e)

RECURSIVE SortEntries(_)
SortEntries(es) ==
  IF Len(es) = 0 THEN <<>>
  ELSE InsertEntry(SortEntries(SubSeq(es, 1, Len(es) - 1)), es[Len(es)])

RECURSIVE InsertByOrder(_, _)
InsertByOrder(sorted, e) ==
  IF Len(sorted) = 0 THEN <<e>>
  ELSE IF sorted[Len(sorted)].order - e.order > 0
    THEN Append(InsertByOrder(SubSeq(sorted, 1, Len(sorted) - 1), e), sorted[Len(sorted)])
    ELSE Append(sorted, e)

RECURSIVE SortByOrder(_)
SortByOrder(xs) ==
  IF Len(xs) = 0 THEN <<>>
  ELSE InsertByOrder(SortByOrder(SubSeq(xs, 1, Len(xs) - 1)), xs[Len(xs)])

\* The elements of a sequence that satisfy a test, in order.
RECURSIVE SelectIds(_, _)
SelectIds(order, keep) ==
  IF Len(order) = 0 THEN <<>>
  ELSE IF Head(order) \in keep THEN <<Head(order)>> \o SelectIds(Tail(order), keep)
  ELSE SelectIds(Tail(order), keep)

\* A plausible slip: a team is pushed to the group its groupId names, so
\* that a team whose groupId names no group of the map is pushed nowhere.
GroupEntriesByGroupId(ms, gs, ts, ls, groupId) ==
  LET members == {u \in DOMAIN ts : ts[u].exists /\ ts[u].groupId = groupId}
      ids == SelectIds(TeamOrder, members)
  IN [i \in 1..Len(ids) |-> EntryOf(ms, gs, ls, ids[i], ts[ids[i]])]

\* The entries pushed to one group, in the order the teams were read.
GroupEntries(ms, gs, ts, ls, groupId) ==
  LET members == {u \in DOMAIN ts :
                    ts[u].exists /\ TargetGroupOf(ms, gs, ts[u]).id = groupId}
      ids == SelectIds(TeamOrder, members)
  IN [i \in 1..Len(ids) |-> EntryOf(ms, gs, ls, ids[i], ts[ids[i]])]

OutputGroup(ms, gs, ts, ls, group) ==
  [id |-> group.id, matchId |-> group.matchId, name |-> group.name, order |-> group.order,
   startAt |-> group.startAt, endAt |-> group.endAt, isActive |-> group.isActive,
   entries |-> SortEntries(GroupEntries(ms, gs, ts, ls, group.id))]

\* A plausible slip: the groups of a match are left in the order they were
\* read.
OutputMatchReadOrder(ms, gs, ts, ls, m) ==
  LET gids == SelectIds(GroupOrder, {g \in GroupMapIds(ms, gs) : gs[g].matchId = m})
  IN [id |-> m, name |-> ms[m].name, order |-> ms[m].order, isActive |-> ms[m].isActive,
      groups |-> [i \in 1..Len(gids) |->
                   OutputGroup(ms, gs, ts, ls, ScoreboardGroupOf(gs, gids[i]))]]

\* One real match with its groups, sorted by order.
OutputMatch(ms, gs, ts, ls, m) ==
  LET gids == SelectIds(GroupOrder, {g \in GroupMapIds(ms, gs) : gs[g].matchId = m})
  IN [id |-> m, name |-> ms[m].name, order |-> ms[m].order, isActive |-> ms[m].isActive,
      groups |-> SortByOrder([i \in 1..Len(gids) |->
                   OutputGroup(ms, gs, ts, ls, ScoreboardGroupOf(gs, gids[i]))])]

\* The sentinel match with the sentinel group.
OutputFallbackMatch(ms, gs, ts, ls) ==
  [id |-> FallbackId, name |-> FallbackName, order |-> MaxSafeInteger, isActive |-> TRUE,
   groups |-> <<OutputGroup(ms, gs, ts, ls, fallbackGroup)>>]

\* A plausible slip: the board is still masked at the instant the event
\* ends.
MaskedOfClosedWindow(runtime, dateNow) ==
  IF runtime.exists /\ runtime.hasFreezeOverride /\ runtime.freezeOverride = TRUE THEN TRUE
  ELSE runtime.exists /\ runtime.freezeAt # NoTime /\ runtime.eventEnd # NoTime
       /\ dateNow >= runtime.freezeAt /\ dateNow <= runtime.eventEnd

\* masked: the override, or the freeze window.
MaskedOf(runtime, dateNow) ==
  IF runtime.exists /\ runtime.hasFreezeOverride /\ runtime.freezeOverride = TRUE THEN TRUE
  ELSE runtime.exists /\ runtime.freezeAt # NoTime /\ runtime.eventEnd # NoTime
       /\ dateNow >= runtime.freezeAt /\ dateNow < runtime.eventEnd

\* A plausible slip: a masked board is written without its standings.
LeaderboardPayloadRedacted(ms, gs, ts, ls, runtime, dateNow) ==
  LET real == SelectIds(MatchOrder,
                {m \in MatchMapIds(ms) : \E g \in GroupMapIds(ms, gs) : gs[g].matchId = m})
      realOut == [i \in 1..Len(real) |-> OutputMatch(ms, gs, ts, ls, real[i])]
      hasFallbackEntries == \E u \in DOMAIN ts : ts[u].exists /\ UsesFallback(ms, gs, ts[u])
      all == IF hasFallbackEntries
               THEN Append(realOut, OutputFallbackMatch(ms, gs, ts, ls)) ELSE realOut
  IN [schemaVersion |-> 2,
      matches |-> IF MaskedOf(runtime, dateNow) THEN <<>> ELSE SortByOrder(all),
      masked |-> MaskedOf(runtime, dateNow),
      updatedAt |-> dateNow,
      unassignedNotice |-> hasFallbackEntries]

\* The payload updatePublicLeaderboard computes from what it read.
LeaderboardPayload(ms, gs, ts, ls, runtime, dateNow) ==
  LET real == SelectIds(MatchOrder,
                {m \in MatchMapIds(ms) : \E g \in GroupMapIds(ms, gs) : gs[g].matchId = m})
      realOut == [i \in 1..Len(real) |-> OutputMatch(ms, gs, ts, ls, real[i])]
      hasFallbackEntries == \E u \in DOMAIN ts : ts[u].exists /\ UsesFallback(ms, gs, ts[u])
      all == IF hasFallbackEntries
               THEN Append(realOut, OutputFallbackMatch(ms, gs, ts, ls)) ELSE realOut
  IN [schemaVersion |-> 2,
      matches |-> SortByOrder(all),
      masked |-> MaskedOf(runtime, dateNow),
      updatedAt |-> dateNow,
      unassignedNotice |-> hasFallbackEntries]

\* A plausible slip: unassignedNotice is only written when it is true, so
\* that the merge keeps a notice raised by an earlier run.
LeaderboardSetStickyNotice(old, payload) ==
  [exists |-> TRUE,
   schemaVersion |-> payload.schemaVersion,
   matches |-> payload.matches,
   masked |-> payload.masked,
   updatedAt |-> payload.updatedAt,
   unassignedNotice |-> payload.unassignedNotice \/ (old.exists /\ old.unassignedNotice),
   legacyEntries |-> old.exists /\ old.legacyEntries]

\* leaderboard_public/runtime .set(payload, {merge: true}): the payload's
\* fields replace the stored ones, any other stored field stays.
LeaderboardSet(old, payload) ==
  [exists |-> TRUE,
   schemaVersion |-> payload.schemaVersion,
   matches |-> payload.matches,
   masked |-> payload.masked,
   updatedAt |-> payload.updatedAt,
   unassignedNotice |-> payload.unassignedNotice,
   legacyEntries |-> old.exists /\ old.legacyEntries]

(***************************************************************************)
(* The leaderboard refresh every handler ends with.                        *)
(***************************************************************************)
\* updatePublicLeaderboard, the reads (Promise.all of the five reads) and the
\* computation of the payload.
Refresh(p) ==
  /\ ResponsesSent
  /\ procs[p].pc = "refresh"
  /\ procs' = [procs EXCEPT ![p].pc = "publish",
                            ![p].loc = LeaderboardPayload(matches, groups, teams, locations,
                                                          settings, now)]
  /\ UNCHANGED <<tok, now, roleOf, teams, claims, locations, matches, groups, settings,
                 leaderboard, calls>>

\* updatePublicLeaderboard, the write of the payload; the handler then
\* returns its response.
Publish(p) ==
  /\ ResponsesSent
  /\ procs[p].pc = "publish"
  /\ leaderboard' = LeaderboardSet(leaderboard, procs[p].loc)
  /\ procs' = [procs EXCEPT ![p].pc = "done", ![p].loc = NoOut, ![p].code = "ok"]
  /\ UNCHANGED <<tok, now, roleOf, teams, claims, locations, matches, groups, settings, calls>>

(***************************************************************************)
(* setUserRole                                                             *)
(***************************************************************************)
Targets == {"u1", "u2", "ghost"}

\* nextClaims of a role change: role removed for 'none', set otherwise.
NextRole(targetRole) == IF targetRole = "none" THEN NoRole ELSE targetRole

\* The team fields of a request or of a CSV row.
LeaderFields(teamName, teamTag, matchId, groupId) ==
  [teamName |-> teamName, teamTag |-> teamTag, matchId |-> matchId, groupId |-> groupId]

NoFields == LeaderFields(Missing, Missing, Missing, Missing)

LeaderFieldsPool ==
  {LeaderFields("Red", "tA", "m1", "g1"),
   LeaderFields("Red", "tB", "m2", "g2"),
   LeaderFields(Missing, "tA", "m1", "g1"),
   LeaderFields("Red", "tA", "m1", "g2"),
   LeaderFields("Red", "tA", "mX", "g1")}

RoleRequest(target, role, fields) == [target |-> target, role |-> role, fields |-> fields]

RoleRequests ==
  {RoleRequest(t, "leader", f) : t \in Targets, f \in LeaderFieldsPool}
  \cup {RoleRequest(t, r, NoFields) : t \in {"u1", "ghost", Missing}, r \in {"admin", "none", "bogus"}}

\* A plausible slip: the group is not compared with the match.
LeaderFieldsErrorAnyGroup(f) ==
  IF f.teamName = Missing \/ f.teamTag = Missing \/ f.matchId = Missing \/ f.groupId = Missing
    THEN "missing-leader-fields"
  ELSE IF ~DocOf(matches, f.matchId).exists THEN "match-not-found"
  ELSE IF ~DocOf(groups, f.groupId).exists THEN "group-not-found"
  ELSE ""

\* The checks on the leader fields and on the match and group they name
\* (matchRef.get(), groupRef.get()): "" when they pass, else what failed.
LeaderFieldsError(f) ==
  IF f.teamName = Missing \/ f.teamTag = Missing \/ f.matchId = Missing \/ f.groupId = Missing
    THEN "missing-leader-fields"
  ELSE IF ~DocOf(matches, f.matchId).exists THEN "match-not-found"
  ELSE IF ~DocOf(groups, f.groupId).exists THEN "group-not-found"
  ELSE IF groups[f.groupId].matchId # f.matchId THEN "group-mismatch"
  ELSE ""

\* A plausible slip: the custom claims of the target are set as soon as the
\* target is resolved, before the checks of the leader fields.
SetUserRoleCallClaimsFirst(p, caller, req) ==
  /\ StartOk(p)
  /\ calls' = calls - 1
  /\ LET role == RoleClaim(caller)
         targetRole == sanitizeRole(req.role)
         resolved == /\ requireRole(caller, role, {"admin"})
                     /\ targetRole # "null" /\ req.target \in Users
     IN /\ procs' = [procs EXCEPT ![p] =
             IF ~requireRole(caller, role, {"admin"})
               THEN Rejected("setUserRole", caller, role, "permission-denied")
             ELSE IF targetRole = "null" \/ req.target = Missing
               THEN Rejected("setUserRole", caller, role, "invalid-argument")
             ELSE IF req.target \notin Users
               THEN Rejected("setUserRole", caller, role, "not-found")
             ELSE IF targetRole = "leader" /\ LeaderFieldsError(req.fields) # ""
               THEN Rejected("setUserRole", caller, role, "invalid-argument")
             ELSE Running("setUserRole",
                          IF targetRole = "leader" THEN "sur_teamget" ELSE "sur_claims",
                          caller, role, req, [teamUpdated |-> FALSE])]
        /\ roleOf' = IF resolved THEN [roleOf EXCEPT ![req.target] = NextRole(targetRole)]
                     ELSE roleOf
  /\ UNCHANGED <<tok, now, teams, claims, locations, matches, groups, settings, leaderboard>>

\* setUserRole up to teamRef.get(): requireRole, sanitizeRole, the target
\* lookup and, for a leader, the field, match and group checks.
SetUserRoleCall(p, caller, req) ==
  /\ StartOk(p)
  /\ calls' = calls - 1
  /\ LET role == RoleClaim(caller)
         targetRole == sanitizeRole(req.role)
     IN procs' = [procs EXCEPT ![p] =
          IF ~requireRole(caller, role, {"admin"})
            THEN Rejected("setUserRole", caller, role, "permission-denied")
          ELSE IF targetRole = "null" \/ req.target = Missing
            THEN Rejected("setUserRole", caller, role, "invalid-argument")
          ELSE IF req.target \notin Users
            THEN Rejected("setUserRole", caller, role, "not-found")
          ELSE IF targetRole = "leader" /\ LeaderFieldsError(req.fields) # ""
            THEN Rejected("setUserRole", caller, role, "invalid-argument")
          ELSE Running("setUserRole",
                       IF targetRole = "leader" THEN "sur_teamget" ELSE "sur_claims",
                       caller, role, req, [teamUpdated |-> FALSE])]
  /\ UNCHANGED <<tok, now, roleOf, teams, claims, locations, matches, groups, settings,
                 leaderboard>>

\* teamRef.get(): does the team exist?
SetUserRoleTeamGet(p) ==
  /\ At(p, "setUserRole", "sur_teamget")
  /\ procs' = [procs EXCEPT ![p].pc = "sur_teamset",
                            ![p].loc = [teamSnapExists |-> teams[procs[p].req.target].exists]]
  /\ UNCHANGED <<tok, now, roleOf, teams, claims, locations, matches, groups, settings,
                 leaderboard, calls>>

\* A team document with no field set.
BlankTeam ==
  [exists |-> TRUE, name |-> "", teamTag |-> "", leaderEmail |-> "",
   matchId |-> NoMatch, matchName |-> "", groupId |-> NoGroup, groupName |-> "",
   score |-> 0, hasSolved |-> FALSE, solved |-> <<>>,
   updatedAt |-> NoTime, createdAt |-> NoTime]

\* teamRef.set(teamData, {merge: true}) of setUserRole: the metadata always,
\* score = 0 and createdAt only when the team was not there when it was read.
SetUserRoleTeam(old, uid, f, teamSnapExists, at) ==
  [(IF old.exists THEN old ELSE BlankTeam) EXCEPT
     !.name = f.teamName,
     !.teamTag = f.teamTag,
     !.leaderEmail = EmailOf(uid),
     !.matchId = f.matchId,
     !.matchName = matches[f.matchId].name,
     !.groupId = f.groupId,
     !.groupName = groups[f.groupId].name,
     !.updatedAt = at,
     !.score = IF teamSnapExists THEN @ ELSE 0,
     !.createdAt = IF teamSnapExists THEN @ ELSE at]

SetUserRoleTeamSet(p) ==
  /\ At(p, "setUserRole", "sur_teamset")
  /\ teams' = [teams EXCEPT ![procs[p].req.target] =
                 SetUserRoleTeam(@, procs[p].req.target, procs[p].req.fields,
                                 procs[p].loc.teamSnapExists, now)]
  /\ procs' = [procs EXCEPT ![p].pc = "sur_claims", ![p].loc = [teamUpdated |-> TRUE]]
  /\ UNCHANGED <<tok, now, roleOf, claims, locations, matches, groups, settings,
                 leaderboard, calls>>

\* auth.setCustomUserClaims(uid, nextClaims); the response is fixed and the
\* refresh follows.
SetUserRoleClaims(p) ==
  /\ At(p, "setUserRole", "sur_claims")
  /\ roleOf' = [roleOf EXCEPT ![procs[p].req.target] = NextRole(procs[p].req.role)]
  /\ procs' = [procs EXCEPT ![p].pc = "refresh",
                            ![p].out = [uid |-> procs[p].req.target,
                                        role |-> NextRole(procs[p].req.role),
                                        teamUpdated |-> procs[p].loc.teamUpdated]]
  /\ UNCHANGED <<tok, now, teams, claims, locations, matches, groups, settings,
                 leaderboard, calls>>

(***************************************************************************)
(* setTeamGroup                                                            *)
(***************************************************************************)
TeamGroupRequests ==
  {[teamId |-> t, matchId |-> f.matchId, groupId |-> f.groupId] :
     t \in {"u1", "u2"}, f \in {LeaderFields("Red", "tA", "m1", "g1"),
                                LeaderFields("Red", "tA", "m2", "g2"),
                                LeaderFields("Red", "tA", "m1", "g2")}}
  \cup {[teamId |-> Missing, matchId |-> "m1", groupId |-> "g1"]}

SetTeamGroupCall(p, caller, req) ==
  /\ StartOk(p)
  /\ calls' = calls - 1
  /\ LET role == RoleClaim(caller)
     IN procs' = [procs EXCEPT ![p] =
          IF ~requireRole(caller, role, {"admin"})
            THEN Rejected("setTeamGroup", caller, role, "permission-denied")
          ELSE IF req.teamId = Missing \/ req.matchId = Missing \/ req.groupId = Missing
            THEN Rejected("setTeamGroup", caller, role, "invalid-argument")
          ELSE Running("setTeamGroup", "stg_get", caller, role, req, NoOut)]
  /\ UNCHANGED <<tok, now, roleOf, teams, claims, locations, matches, groups, settings,
                 leaderboard>>

\* The three reads and the checks on them.
SetTeamGroupGet(p) ==
  /\ At(p, "setTeamGroup", "stg_get")
  /\ LET me == procs[p]
         req == me.req
     IN procs' = [procs EXCEPT ![p] =
          IF ~DocOf(teams, req.teamId).exists
            THEN Answered("setTeamGroup", me.uid, me.role, req, "not-found", NoOut)
          ELSE IF ~DocOf(matches, req.matchId).exists \/ ~DocOf(groups, req.groupId).exists
            THEN Answered("setTeamGroup", me.uid, me.role, req, "invalid-argument", NoOut)
          ELSE IF groups[req.groupId].matchId # req.matchId
            THEN Answered("setTeamGroup", me.uid, me.role, req, "invalid-argument", NoOut)
          ELSE [me EXCEPT !.pc = "stg_update",
                          !.loc = [matchName |-> matches[req.matchId].name,
                                   groupName |-> groups[req.groupId].name]]]
  /\ UNCHANGED <<tok, now, roleOf, teams, claims, locations, matches, groups, settings,
                 leaderboard, calls>>

\* A plausible slip: the update written like the upsert of a CSV row, score
\* and solved included.
SetTeamGroupTeamReset(old, req, matchName, groupName, at) ==
  [old EXCEPT !.matchId = req.matchId, !.matchName = matchName,
              !.groupId = req.groupId, !.groupName = groupName, !.updatedAt = at,
              !.score = 0, !.hasSolved = TRUE, !.solved = <<>>]

\* teams/{teamId}.update({matchId, matchName, groupId, groupName, updatedAt}).
SetTeamGroupTeam(old, req, matchName, groupName, at) ==
  [old EXCEPT !.matchId = req.matchId, !.matchName = matchName,
              !.groupId = req.groupId, !.groupName = groupName, !.updatedAt = at]

SetTeamGroupUpdate(p) ==
  /\ At(p, "setTeamGroup", "stg_update")
  /\ teams' = [teams EXCEPT ![procs[p].req.teamId] =
                 SetTeamGroupTeam(@, procs[p].req, procs[p].loc.matchName,
                                  procs[p].loc.groupName, now)]
  /\ procs' = [procs EXCEPT ![p].pc = "refresh", ![p].out = [ok |-> TRUE]]
  /\ UNCHANGED <<tok, now, roleOf, claims, locations, matches, groups, settings,
                 leaderboard, calls>>

(***************************************************************************)
(* bulkImportUsers                                                         *)
(***************************************************************************)
RowPool ==
  {RoleRequest("u1", "leader", LeaderFields("Red", "tA", "m1", "g1")),
   RoleRequest("u2", "leader", LeaderFields("Red", "tB", "m2", "g2")),
   RoleRequest("ghost", "leader", LeaderFields("Red", "tA", "m1", "g1")),
   RoleRequest("u1", "leader", LeaderFields("Red", "tA", "m1", "g2")),
   RoleRequest("u1", "none", NoFields),
   RoleRequest("u1", "bogus", NoFields)}

RowSeqs == UNION {[1..n -> RowPool] : n \in 0..MaxRows}

\* The error code of a row, "" when the row is applied.
RowError(row) ==
  IF sanitizeRole(row.role) = "null" THEN "invalid-role"
  ELSE IF row.target = Missing THEN "missing-target"
  ELSE IF row.target \notin Users THEN "user-not-found"
  ELSE IF row.role = "leader" THEN LeaderFieldsError(row.fields)
  ELSE ""

BulkImportCall(p, caller, rows) ==
  /\ StartOk(p)
  /\ calls' = calls - 1
  /\ LET role == RoleClaim(caller)
     IN procs' = [procs EXCEPT ![p] =
          IF ~requireRole(caller, role, {"admin"})
            THEN Rejected("bulkImportUsers", caller, role, "permission-denied")
          ELSE IF Len(rows) = 0
            THEN Rejected("bulkImportUsers", caller, role, "invalid-argument")
          ELSE Running("bulkImportUsers", "bi_row", caller, role, [rows |-> rows],
                       [index |-> 0, successCount |-> 0, errors |-> <<>>])]
  /\ UNCHANGED <<tok, now, roleOf, teams, claims, locations, matches, groups, settings,
                 leaderboard>>

\* A plausible slip: the loop is left at the first failing row.
BulkNextStopOnError(me, successCount, errors) ==
  IF me.loc.index + 1 < Len(me.req.rows) /\ Len(errors) = 0
    THEN [me EXCEPT !.pc = "bi_row",
                    !.loc = [index |-> me.loc.index + 1, successCount |-> successCount,
                             errors |-> errors]]
    ELSE [me EXCEPT !.pc = "refresh",
                    !.loc = NoOut,
                    !.out = [successCount |-> successCount, failureCount |-> Len(errors),
                             errors |-> errors]]

\* A plausible slip: the refresh is awaited inside the loop, and the
\* response follows the first one.
BulkNextRefreshInLoop(me, successCount, errors) ==
  [me EXCEPT !.pc = "refresh",
             !.loc = NoOut,
             !.out = [successCount |-> successCount, failureCount |-> Len(errors),
                      errors |-> errors]]

\* The loop goes on to the next row, or leaves for the refresh with the
\* response {successCount, failureCount, errors}.
BulkNext(me, successCount, errors) ==
  IF me.loc.index + 1 < Len(me.req.rows)
    THEN [me EXCEPT !.pc = "bi_row",
                    !.loc = [index |-> me.loc.index + 1, successCount |-> successCount,
                             errors |-> errors]]
    ELSE [me EXCEPT !.pc = "refresh",
                    !.loc = NoOut,
                    !.out = [successCount |-> successCount, failureCount |-> Len(errors),
                             errors |-> errors]]

\* teamRef.set({..., score: 0, solved: {}, updatedAt, createdAt}, {merge: true})
\* of a leader row: every field listed is written, the empty solved map
\* included.
BulkImportTeam(old, uid, f, at) ==
  [(IF old.exists THEN old ELSE BlankTeam) EXCEPT
     !.name = f.teamName,
     !.teamTag = f.teamTag,
     !.leaderEmail = EmailOf(uid),
     !.matchId = f.matchId,
     !.matchName = matches[f.matchId].name,
     !.groupId = f.groupId,
     !.groupName = groups[f.groupId].name,
     !.score = 0,
     !.hasSolved = TRUE,
     !.solved = <<>>,
     !.updatedAt = at,
     !.createdAt = at]

\* One row up to and including its team write: the row checks, the target
\* lookup, the match and group reads and, for a leader, teamRef.set.  A
\* failing row is recorded and skipped.
BulkImportRow(p) ==
  /\ At(p, "bulkImportUsers", "bi_row")
  /\ LET me == procs[p]
         row == me.req.rows[me.loc.index + 1]
         err == RowError(row)
     IN /\ procs' = [procs EXCEPT ![p] =
             IF err # ""
               THEN BulkNext(me, me.loc.successCount,
                             Append(me.loc.errors, [index |-> me.loc.index, code |-> err]))
               ELSE [me EXCEPT !.pc = "bi_claims"]]
        /\ teams' = IF err = "" /\ row.role = "leader"
                      THEN [teams EXCEPT ![row.target] =
                              BulkImportTeam(@, row.target, row.fields, now)]
                      ELSE teams
  /\ UNCHANGED <<tok, now, roleOf, claims, locations, matches, groups, settings,
                 leaderboard, calls>>

\* auth.setCustomUserClaims of the row; the row counts as a success.
BulkImportClaims(p) ==
  /\ At(p, "bulkImportUsers", "bi_claims")
  /\ LET me == procs[p]
         row == me.req.rows[me.loc.index + 1]
     IN /\ roleOf' = [roleOf EXCEPT ![row.target] = NextRole(row.role)]
        /\ procs' = [procs EXCEPT ![p] = BulkNext(me, me.loc.successCount + 1, me.loc.errors)]
  /\ UNCHANGED <<tok, now, teams, claims, locations, matches, groups, settings,
                 leaderboard, calls>>

(***************************************************************************)
(* setFreezeState                                                          *)
(***************************************************************************)
FrozenInputs == {"true", "false", Missing}

SetFreezeStateCall(p, caller, frozen) ==
  /\ StartOk(p)
  /\ calls' = calls - 1
  /\ LET role == RoleClaim(caller)
     IN procs' = [procs EXCEPT ![p] =
          IF ~requireRole(caller, role, {"admin"})
            THEN Rejected("setFreezeState", caller, role, "permission-denied")
          ELSE IF frozen \notin {"true", "false"}
            THEN Rejected("setFreezeState", caller, role, "invalid-argument")
          ELSE Running("setFreezeState", "sfs_set", caller, role, [frozen |-> frozen], NoOut)]
  /\ UNCHANGED <<tok, now, roleOf, teams, claims, locations, matches, groups, settings,
                 leaderboard>>

\* A settings/runtime document with no field set.
BlankSettings ==
  [exists |-> TRUE, eventStart |-> NoTime, freezeAt |-> NoTime, eventEnd |-> NoTime,
   hasFreezeOverride |-> FALSE, freezeOverride |-> FALSE, updatedAt |-> NoTime]

\* settings/runtime .set({freezeOverride, updatedAt}, {merge: true}); no
\* refresh follows.
SetFreezeStateSet(p) ==
  /\ At(p, "setFreezeState", "sfs_set")
  /\ settings' = [(IF settings.exists THEN settings ELSE BlankSettings) EXCEPT
                    !.hasFreezeOverride = TRUE,
                    !.freezeOverride = (procs[p].req.frozen = "true"),
                    !.updatedAt = now]
  /\ procs' = [procs EXCEPT ![p].pc = "done", ![p].code = "ok", ![p].out = [ok |-> TRUE]]
  /\ UNCHANGED <<tok, now, roleOf, teams, claims, locations, matches, groups, leaderboard, calls>>

(***************************************************************************)
(* generateLocationQr                                                      *)
(***************************************************************************)
NoLoc == <<>>
Nonces == {<<"n">>, <<"a">>}

\* 365 days in the unit of the model's clock.
DefaultValidity == 365

QrRequests ==
  {[locationId |-> l, expiresAt |-> e] :
     l \in {<<"L", "1">>, <<"L", "9">>, NoLoc}, e \in {NoTime, 0, 9}}

GenerateLocationQrCall(p, caller, req) ==
  /\ StartOk(p)
  /\ calls' = calls - 1
  /\ LET role == RoleClaim(caller)
     IN procs' = [procs EXCEPT ![p] =
          IF ~requireRole(caller, role, {"admin"})
            THEN Rejected("generateLocationQr", caller, role, "permission-denied")
          ELSE IF req.locationId = NoLoc
            THEN Rejected("generateLocationQr", caller, role, "invalid-argument")
          ELSE IF req.expiresAt # NoTime /\ req.expiresAt <= now
            THEN Rejected("generateLocationQr", caller, role, "invalid-argument")
          ELSE Running("generateLocationQr", "gq_get", caller, role, req,
                       [expEpoch |-> IF req.expiresAt # NoTime THEN req.expiresAt
                                     ELSE now + DefaultValidity])]
  /\ UNCHANGED <<tok, now, roleOf, teams, claims, locations, matches, groups, settings,
                 leaderboard>>

\* The location read, then the nonce, the signature and the token.
GenerateLocationQrGet(p, nonce) ==
  /\ At(p, "generateLocationQr", "gq_get")
  /\ LET me == procs[p]
     IN procs' = [procs EXCEPT ![p] =
          IF ~DocOf(locations, me.req.locationId).exists
            THEN Answered("generateLocationQr", me.uid, me.role, me.req, "not-found", NoOut)
          ELSE IF ~getQrSecretOk(QrSecret)
            THEN Answered("generateLocationQr", me.uid, me.role, me.req,
                          "failed-precondition", NoOut)
          ELSE Answered("generateLocationQr", me.uid, me.role, me.req, "ok",
                        [token |-> BuildToken(QrSecret, me.req.locationId, nonce,
                                              me.loc.expEpoch),
                         nonce |-> nonce])]
  /\ UNCHANGED <<tok, now, roleOf, teams, claims, locations, matches, groups, settings,
                 leaderboard, calls>>

(***************************************************************************)
(* The system.                                                             *)
(***************************************************************************)
\* Time passes.
Tick ==
  /\ ResponsesSent
  /\ now < MaxNow
  /\ now' = now + 1
  /\ UNCHANGED <<tok, roleOf, teams, claims, locations, matches, groups, settings,
                 leaderboard, procs, calls>>

\* The response has been sent; the slot is free again.
Return(p) ==
  /\ procs[p].pc = "done"
  /\ procs' = [procs EXCEPT ![p] = IdleProc]
  /\ UNCHANGED <<tok, now, roleOf, teams, claims, locations, matches, groups, settings,
                 leaderboard, calls>>

\* No token under test.
NoTok == [stage |-> "none"]

\* The deployed functions at the start of the event: ensureAdminRole has
\* given the admin its role, the admin console has written the matches,
\* groups, locations and runtime settings, and the admin has made u1 a leader
\* with setUserRole at time 0 (team written, role set, leaderboard refreshed).
InitSys(budget) ==
  /\ now = 1
  /\ roleOf = [u \in Users |-> IF u = AdminUid THEN "admin"
                               ELSE IF u = "u1" THEN "leader" ELSE NoRole]
  /\ locations = LocationDocs
  /\ matches = MatchDocs
  /\ groups = GroupDocs
  /\ settings = SettingsDoc
  /\ teams = [u \in Users |->
                IF u = "u1"
                  THEN SetUserRoleTeam(NoDoc, "u1", LeaderFields("Red", "tA", "m1", "g1"),
                                       FALSE, 0)
                  ELSE NoDoc]
  /\ claims = EmptyBag
  /\ leaderboard = LeaderboardSet(NoDoc, LeaderboardPayload(matches, groups, teams, locations,
                                                            settings, 0))
  /\ procs = [p \in Procs |-> IdleProc]
  /\ calls = budget

Init == InitSys(MaxCalls) /\ tok = NoTok

\* The requests of each operation, every argument check covered.
ClaimRequests ==
  [token : TokenPool \cup {NoToken}, providedKeyword : Keywords \cup {Missing},
   providedTeamTag : Tags \cup {Missing}]

\* Well-formed requests: tokens that verify, with a right or wrong keyword
\* and tag.
ValidToken1 == BuildToken(QrSecret, Loc1, <<"n">>, 9)
ValidToken2 == BuildToken(QrSecret, Loc2, <<"n">>, 9)

ClaimRequestsMain ==
  {[token |-> ValidToken1, providedKeyword |-> "k1", providedTeamTag |-> "tA"],
   [token |-> ValidToken2, providedKeyword |-> "k2", providedTeamTag |-> "tA"],
   [token |-> ValidToken1, providedKeyword |-> "k2", providedTeamTag |-> "tA"],
   [token |-> ValidToken1, providedKeyword |-> "k1", providedTeamTag |-> "tB"]}

RoleRequestsMain ==
  {RoleRequest(t, "leader", f) :
     t \in {"u1", "u2"}, f \in {LeaderFields("Red", "tA", "m1", "g1"),
                                LeaderFields("Red", "tB", "m2", "g2")}}
  \cup {RoleRequest("u1", "none", NoFields)}

TeamGroupRequestsMain ==
  {[teamId |-> "u1", matchId |-> "m2", groupId |-> "g2"],
   [teamId |-> "u1", matchId |-> "m1", groupId |-> "g1"],
   [teamId |-> "u2", matchId |-> "m1", groupId |-> "g2"]}

RowPoolMain ==
  {RoleRequest("u1", "leader", LeaderFields("Red", "tA", "m1", "g1")),
   RoleRequest("ghost", "leader", LeaderFields("Red", "tA", "m1", "g1"))}

RowSeqsMain == UNION {[1..n -> RowPoolMain] : n \in 1..MaxRows}

ClaimStep(p, callers, requests) ==
  \/ \E caller \in callers, req \in requests :
       ClaimCall(p, caller, req.token, req.providedKeyword, req.providedTeamTag)
  \/ ClaimTxGet(p)
  \/ ClaimTxCommit(p)

SetUserRoleStep(p, callers, requests) ==
  \/ \E caller \in callers, req \in requests : SetUserRoleCall(p, caller, req)
  \/ SetUserRoleTeamGet(p)
  \/ SetUserRoleTeamSet(p)
  \/ SetUserRoleClaims(p)

SetTeamGroupStep(p, callers, requests) ==
  \/ \E caller \in callers, req \in requests : SetTeamGroupCall(p, caller, req)
  \/ SetTeamGroupGet(p)
  \/ SetTeamGroupUpdate(p)

BulkImportStep(p, callers, rowSeqs) ==
  \/ \E caller \in callers, rows \in rowSeqs : BulkImportCall(p, caller, rows)
  \/ BulkImportRow(p)
  \/ BulkImportClaims(p)

SetFreezeStateStep(p, callers) ==
  \/ \E caller \in callers, frozen \in FrozenInputs : SetFreezeStateCall(p, caller, frozen)
  \/ SetFreezeStateSet(p)

GenerateLocationQrStep(p, callers) ==
  \/ \E caller \in callers, req \in QrRequests : GenerateLocationQrCall(p, caller, req)
  \/ \E nonce \in Nonces : GenerateLocationQrGet(p, nonce)

\* The four operations that write teams, with the refresh they end with:
\* well-formed requests of the leaders and of the admin, at most MaxProcs in
\* flight together.
Next ==
  \E p \in Procs :
    \/ ClaimStep(p, {"u1", "u2"}, ClaimRequestsMain)
    \/ SetUserRoleStep(p, {AdminUid}, RoleRequestsMain)
    \/ SetTeamGroupStep(p, {AdminUid}, TeamGroupRequestsMain)
    \/ BulkImportStep(p, {AdminUid}, RowSeqsMain)
    \/ Refresh(p)
    \/ Publish(p)
    \/ Return(p)

Spec == Init /\ [][Next]_vars

\* All six callable functions, called by anyone with any request, while
\* time passes.
InitAll == InitSys(MaxGateCalls) /\ tok = NoTok

NextAll ==
  \/ Tick
  \/ \E p \in Procs :
       \/ ClaimStep(p, Callers, ClaimRequests)
       \/ SetUserRoleStep(p, Callers, RoleRequests)
       \/ SetTeamGroupStep(p, Callers, TeamGroupRequests)
       \/ BulkImportStep(p, Callers, RowSeqs)
       \/ SetFreezeStateStep(p, Callers)
       \/ GenerateLocationQrStep(p, Callers)
       \/ Refresh(p)
       \/ Publish(p)
       \/ Return(p)

SpecAll == InitAll /\ [][NextAll]_vars

\* The gate of each callable function: well-formed requests of each
\* operation, sent by every kind of caller, while time passes.
InitGate == InitSys(MaxGateCalls) /\ tok = NoTok

ClaimRequestsGate ==
  {[token |-> ValidToken1, providedKeyword |-> "k1", providedTeamTag |-> "tA"],
   [token |-> ValidToken2, providedKeyword |-> "k2", providedTeamTag |-> "tA"]}

RoleRequestsGate ==
  {RoleRequest("u2", "leader", LeaderFields("Blue", "tB", "m2", "g2")),
   RoleRequest("u1", "none", NoFields)}

TeamGroupRequestsGate ==
  {[teamId |-> "u1", matchId |-> "m2", groupId |-> "g2"],
   [teamId |-> "u2", matchId |-> "m1", groupId |-> "g1"]}

RowSeqsGate ==
  {<<RoleRequest("u2", "leader", LeaderFields("Blue", "tB", "m2", "g2"))>>,
   <<RoleRequest("u1", "admin", NoFields)>>}

NextGate ==
  \/ Tick
  \/ \E p \in Procs :
       \/ ClaimStep(p, Callers, ClaimRequestsGate)
       \/ SetUserRoleStep(p, Callers, RoleRequestsGate)
       \/ SetTeamGroupStep(p, Callers, TeamGroupRequestsGate)
       \/ BulkImportStep(p, Callers, RowSeqsGate)
       \/ SetFreezeStateStep(p, Callers)
       \/ GenerateLocationQrStep(p, Callers)
       \/ Refresh(p)
       \/ Publish(p)
       \/ Return(p)

SpecGate == InitGate /\ [][NextGate]_vars

\* MaxProcs calls in flight together: claims of u1 and of u2 next to one
\* request of each operation of the admin.
InitPair == InitSys(MaxProcs) /\ tok = NoTok

ClaimRequestsPair ==
  {[token |-> ValidToken1, providedKeyword |-> "k1", providedTeamTag |-> "tA"],
   [token |-> ValidToken1, providedKeyword |-> "k1", providedTeamTag |-> "tB"]}

RoleRequestsPair == {RoleRequest("u2", "leader", LeaderFields("Blue", "tB", "m1", "g1"))}

TeamGroupRequestsPair == {[teamId |-> "u1", matchId |-> "m2", groupId |-> "g2"]}

RowSeqsPair == {<<RoleRequest("u1", "leader", LeaderFields("Red", "tA", "m1", "g1"))>>}

NextPair ==
  \E p \in Procs :
    \/ ClaimStep(p, {"u1", "u2"}, ClaimRequestsPair)
    \/ SetUserRoleStep(p, {AdminUid}, RoleRequestsPair)
    \/ SetTeamGroupStep(p, {AdminUid}, TeamGroupRequestsPair)
    \/ BulkImportStep(p, {AdminUid}, RowSeqsPair)
    \/ Refresh(p)
    \/ Publish(p)
    \/ Return(p)

SpecPair == InitPair /\ [][NextPair]_vars

\* One bulkImportUsers call of the admin with up to MaxBulkRows rows, each
\* a row that applies or a row that fails.
InitBulk == InitSys(1) /\ tok = NoTok

RowPoolBulk ==
  {RoleRequest("u1", "leader", LeaderFields("Red", "tA", "m1", "g1")),
   RoleRequest("u2", "leader", LeaderFields("Blue", "tB", "m2", "g2")),
   RoleRequest("ghost", "leader", LeaderFields("Red", "tA", "m1", "g1")),
   RoleRequest("u1", "bogus", NoFields)}

RowSeqsBulk == UNION {[1..n -> RowPoolBulk] : n \in 1..MaxBulkRows}

NextBulk ==
  \E p \in Procs :
    \/ BulkImportStep(p, {AdminUid}, RowSeqsBulk)
    \/ Refresh(p)
    \/ Publish(p)
    \/ Return(p)

SpecBulk == InitBulk /\ [][NextBulk]_vars

\* MaxProcs claims of u1, and nothing else.
InitClaims == InitSys(MaxProcs) /\ tok = NoTok

NextClaims ==
  \E p \in Procs :
    \/ ClaimStep(p, {"u1"}, ClaimRequestsMain)
    \/ Refresh(p)
    \/ Publish(p)
    \/ Return(p)

SpecClaims == InitClaims /\ [][NextClaims]_vars

(***************************************************************************)
(* The token codec on its own: a token is issued as generateLocationQr     *)
(* builds it, altered or not by whoever holds it, and verified by          *)
(* parseToken, under any pair of secrets and at any time.                  *)
(***************************************************************************)
TokSecrets == {<<"s">>, <<"z">>, NoSecret}
TokLocIds == {<<"L", "1">>, <<"L", "2">>}
TokExps == {0, 9, 10}
TokNows == {0, 9, 10, 11}

\* What a holder of the token may put in place of a character or a field.
TamperChars == {"|", "0", "1", "9", "a", "L"}

TamperFields ==
  {<<>>, <<"L", "1">>, <<"L", "2">>, <<"n">>, <<"a">>, <<"0">>, <<"9">>, <<"1", "0">>,
   <<"9", "9">>, <<"a", "9">>}
  \cup {signPayload(sec, Join3(l, n, ToDecimal(e))) :
          sec \in TokSecrets \ {NoSecret}, l \in TokLocIds, n \in Nonces, e \in TokExps}

RECURSIVE JoinAll(_)
JoinAll(parts) ==
  IF Len(parts) = 0 THEN <<>>
  ELSE IF Len(parts) = 1 THEN parts[1]
  ELSE parts[1] \o <<PIPE>> \o JoinAll(Tail(parts))

InitToken ==
  /\ InitSys(0)
  /\ tok \in {[stage |-> "input", secret |-> sec, locationId |-> l, nonce |-> n, exp |-> e]
                : sec \in TokSecrets, l \in TokLocIds, n \in Nonces, e \in TokExps}

\* generateLocationQr, from the nonce to the token.
TokIssue ==
  /\ tok.stage = "input"
  /\ tok' = IF ~getQrSecretOk(tok.secret)
              THEN [stage |-> "failed", code |-> "failed-precondition"]
              ELSE [stage |-> "issued", secret |-> tok.secret, locationId |-> tok.locationId,
                    nonce |-> tok.nonce, exp |-> tok.exp, kind |-> "none",
                    token |-> BuildToken(tok.secret, tok.locationId, tok.nonce, tok.exp)]
  /\ UNCHANGED sysvars

\* One character of the token is replaced by another.
TokTamperChar(i, c) ==
  /\ tok.stage = "issued" /\ tok.kind = "none"
  /\ i \in 1..Len(tok.token)
  /\ tok.token[i] # c
  /\ tok' = [tok EXCEPT !.kind = "char", !.token = [@ EXCEPT ![i] = c]]
  /\ UNCHANGED sysvars

\* One of the four fields is replaced by another value.
TokTamperField(k, v) ==
  /\ tok.stage = "issued" /\ tok.kind = "none"
  /\ Split(tok.token)[k] # v
  /\ tok' = [tok EXCEPT !.kind = "field", !.token = JoinAll([Split(@) EXCEPT ![k] = v])]
  /\ UNCHANGED sysvars

\* A field is added at the end, or the last field is dropped.
TokTamperCount(add) ==
  /\ tok.stage = "issued" /\ tok.kind = "none"
  /\ tok' = [tok EXCEPT !.kind = "count",
                        !.token = IF add THEN @ \o <<PIPE, "a">>
                                  ELSE JoinAll(SubSeq(Split(@), 1, 3))]
  /\ UNCHANGED sysvars

\* parseToken under the verifier's secret at the verifier's time.
TokVerify(vsecret, vnow) ==
  /\ tok.stage = "issued"
  /\ tok' = [stage |-> "verified", secret |-> tok.secret, locationId |-> tok.locationId,
             nonce |-> tok.nonce, exp |-> tok.exp, kind |-> tok.kind, token |-> tok.token,
             vsecret |-> vsecret, vnow |-> vnow,
             res |-> parseToken(tok.token, vsecret, vnow)]
  /\ UNCHANGED sysvars

NextToken ==
  \/ TokIssue
  \/ \E i \in 1..40, c \in TamperChars : TokTamperChar(i, c)
  \/ \E k \in 1..4, v \in TamperFields : TokTamperField(k, v)
  \/ \E add \in BOOLEAN : TokTamperCount(add)
  \/ \E vsecret \in TokSecrets, vnow \in TokNows : TokVerify(vsecret, vnow)

SpecToken == InitToken /\ [][NextToken]_vars

(***************************************************************************)
(* Properties of claim and of the operations that write teams.             *)
(***************************************************************************)
\* The Claim records of one team for one location.
ClaimsFor(t, l) ==
  [r \in {x \in DOMAIN claims : x.teamId = t /\ x.locationId = l} |-> claims[r]]

ClaimCount(t, l) == BagCardinality(ClaimsFor(t, l))

\* Handler p runs a claim of u1 for location L1 with a valid token, the
\* right keyword and the right team tag.
ValidClaim1(p) ==
  /\ procs[p].op = "claim"
  /\ procs[p].uid = "u1"
  /\ procs[p].req = [locationId |-> Loc1, providedKeyword |-> "k1", providedTeamTag |-> "tA"]

\* The transaction of p is over: it has committed or thrown.
ClaimSettled(p) == procs[p].pc \in {"refresh", "publish", "done"}

ClaimSucceeded(p) ==
  \/ procs[p].pc \in {"refresh", "publish"}
  \/ procs[p].pc = "done" /\ procs[p].code = "ok"

ValidClaims1 == {p \in Procs : ValidClaim1(p)}

\* Every handler slot holds a claim: the calls were in flight together, none
\* has been answered and replaced by a later one.
ClaimsTogether == \A p \in Procs : procs[p].op = "claim"

\* C1 (concurrent claims): when N >= 2 valid claims of the same team for
\* the same active location have run, in any interleaving of their
\* transactions, exactly one has succeeded, the others have failed with
\* already-exists, the score has grown by one points value (200) and one
\* Claim record has been written.
ConcurrentClaimsOnce ==
  (/\ ClaimsTogether
   /\ Cardinality(ValidClaims1) >= 2
   /\ \A p \in ValidClaims1 : ClaimSettled(p))
    => /\ Cardinality({p \in ValidClaims1 : ClaimSucceeded(p)}) = 1
       /\ \A p \in ValidClaims1 : ~ClaimSucceeded(p) => procs[p].code = "already-exists"
       /\ teams["u1"].score = 200
       /\ ClaimCount("u1", Loc1) = 1

\* Two valid claims for the same location answered: one ok, one
\* already-exists.
ConcurrentClaimsWitness ==
  /\ ClaimsTogether
  /\ Cardinality(ValidClaims1) >= 2
  /\ \A p \in ValidClaims1 : procs[p].pc = "done"
  /\ \E p, q \in ValidClaims1 :
       /\ procs[p].code = "ok" /\ procs[p].out.pointsAwarded = 200
       /\ procs[q].code = "already-exists"
  /\ teams["u1"].score = 200
  /\ ClaimCount("u1", Loc1) = 1

\* C2 (credited at most once): over any interleaving of claim,
\* setUserRole, setTeamGroup and bulkImportUsers calls, at most one Claim
\* record exists for each team and location.
CreditedAtMostOnce ==
  \A t \in Users, l \in LocIds : ClaimCount(t, l) <= 1

\* This step is a step of a claim handler p.
ClaimStepOf(p) == procs'[p] # procs[p] /\ procs'[p].op = "claim"

\* The step commits every write of an accepted claim of p, and nothing else
\* in teams and claims.
ClaimWritesAll(p) ==
  LET u == procs'[p].uid
      l == procs'[p].out.locationId
      pts == procs'[p].out.pointsAwarded
  IN  /\ procs[p].pc = "claim_txcommit" /\ procs'[p].pc = "refresh"
      /\ teams[u].exists /\ teams'[u].exists
      /\ teams'[u].score = teams[u].score + pts
      /\ DOMAIN teams'[u].solved = DOMAIN teams[u].solved \cup {l}
      /\ teams'[u].solved[l] = [at |-> now, points |-> pts]
      /\ \A k \in DOMAIN teams[u].solved \ {l} : teams'[u].solved[k] = teams[u].solved[k]
      /\ teams'[u].updatedAt = now
      /\ \A t \in Users \ {u} : teams'[t] = teams[t]
      /\ \E r \in DOMAIN claims' :
           /\ r.teamId = u /\ r.locationId = l /\ r.points = pts
           /\ claims' = claims (+) SetToBag({r})

\* C3 (all or nothing): a step of a claim either commits the score, the
\* solved entry, updatedAt and one Claim record together and goes on to its
\* success response, or leaves teams and claims as they are; a claim that
\* answers with an error has written nothing.
ClaimAllOrNothing ==
  [][\A p \in Procs :
       ClaimStepOf(p) =>
         \/ ClaimWritesAll(p)
         \/ /\ teams' = teams /\ claims' = claims
            /\ ~(procs[p].pc = "claim_txcommit" /\ procs'[p].pc = "refresh")]_vars

\* An accepted claim next to one that failed with an error: the accepted one
\* has its score, its solved entry and its record.
ClaimAllOrNothingWitness ==
  \E p, q \in Procs :
    /\ procs[p].op = "claim" /\ procs[p].pc = "refresh"
    /\ procs[p].out.locationId \in DOMAIN teams[procs[p].uid].solved
    /\ teams[procs[p].uid].score = procs[p].out.pointsAwarded
    /\ ClaimCount(procs[p].uid, procs[p].out.locationId) = 1
    /\ procs[q].op = "claim" /\ procs[q].pc = "done" /\ procs[q].code = "permission-denied"

\* C4 (scores only increase): no step lowers the score of an existing team.
ScoresOnlyIncrease ==
  [][\A t \in Users :
       (teams[t].exists /\ teams'[t].exists) => teams'[t].score >= teams[t].score]_vars

\* C5 (solved is append-only): a location present in a team's solved map
\* stays present with the same points.
SolvedAppendOnly ==
  [][\A t \in Users :
       teams[t].exists =>
         \A l \in DOMAIN teams[t].solved :
           /\ teams'[t].exists
           /\ l \in DOMAIN teams'[t].solved
           /\ teams'[t].solved[l].points = teams[t].solved[l].points]_vars

RECURSIVE SolvedPoints(_)
\* The sum of solved[*].points of a solved map.
SolvedPoints(solved) ==
  IF DOMAIN solved = {} THEN 0
  ELSE LET l == CHOOSE x \in DOMAIN solved : TRUE
       IN  solved[l].points + SolvedPoints([k \in DOMAIN solved \ {l} |-> solved[k]])

\* C6 (score is the sum): in every reachable state the score of every team
\* equals the sum of the points of its solved map.
ScoreIsSolvedSum ==
  \A t \in Users : teams[t].exists => teams[t].score = SolvedPoints(teams[t].solved)

\* C8 (frame of claim): a step of a claim made by u reads the team document
\* keyed by u and changes no other team and no location, match, group or
\* settings document, whatever the payload carries; the Claim record it
\* writes names u.
ClaimTouchesOwnTeamOnly ==
  [][\A p \in Procs :
       ClaimStepOf(p) =>
         /\ \A t \in Users \ {procs'[p].uid} : teams'[t] = teams[t]
         /\ locations' = locations /\ matches' = matches
         /\ groups' = groups /\ settings' = settings
         /\ procs'[p].pc = "claim_txcommit"
              => procs'[p].loc.teamSnap = teams[procs'[p].uid]
         /\ \A r \in DOMAIN claims' :
              claims' # claims /\ CopiesIn(r, claims') > CopiesIn(r, claims)
                => r.teamId = procs'[p].uid]_vars

\* u2 has claimed with its own tag while u1's team exists untouched: u2's
\* team is credited, u1's score is still 0.
ClaimTouchesOwnTeamWitness ==
  \E p \in Procs :
    /\ procs[p].op = "claim" /\ procs[p].uid = "u2" /\ procs[p].pc = "refresh"
    /\ teams["u2"].score = procs[p].out.pointsAwarded
    /\ teams["u1"].exists /\ teams["u1"].score = 0
    /\ ClaimCount("u2", procs[p].out.locationId) = 1

(***************************************************************************)
(* The role gate, checked under SpecAll.                                   *)
(***************************************************************************)
\* The roles an operation is open to.
AllowedRoles(op) == IF op = "claim" THEN {"leader", "admin"} ELSE {"admin"}

\* Handler p serves a caller the gate must turn away.
Unauthorised(p) ==
  /\ procs[p].op # "idle"
  /\ procs[p].uid = NoUid \/ procs[p].role \notin AllowedRoles(procs[p].op)

GateOps ==
  {"claim", "setUserRole", "generateLocationQr", "setTeamGroup", "bulkImportUsers",
   "setFreezeState"}

\* C7 (role gate): a handler that serves a caller without the role its
\* operation requires has answered permission-denied, and the step in which
\* it took the call changed no document and no role claim.
RoleGate ==
  /\ [](\A p \in Procs :
          /\ procs[p].op # "idle" => procs[p].op \in GateOps
          /\ Unauthorised(p) => procs[p].pc = "done" /\ procs[p].code = "permission-denied")
  /\ [][\A p \in Procs :
          (procs[p].op = "idle" /\ procs'[p].op # "idle"
             /\ (procs'[p].uid = NoUid \/ procs'[p].role \notin AllowedRoles(procs'[p].op)))
            => /\ roleOf' = roleOf /\ teams' = teams /\ claims' = claims
               /\ locations' = locations /\ matches' = matches /\ groups' = groups
               /\ settings' = settings /\ leaderboard' = leaderboard]_vars

\* A leader has called an admin-only operation and was turned away.
RoleGateWitness ==
  \E p \in Procs :
    /\ procs[p].op = "bulkImportUsers" /\ procs[p].role = "leader"
    /\ procs[p].pc = "done" /\ procs[p].code = "permission-denied"
    /\ teams["u1"].score = 0 /\ roleOf["u1"] = "leader"

(***************************************************************************)
(* Properties of the token codec, checked under SpecToken.                 *)
(***************************************************************************)
TokVerified == tok.stage = "verified"

\* C9 (token round trip): a token issued for location L with expiry exp under
\* a configured secret, left unaltered and verified under the same secret at a
\* time now <= exp, is accepted, and the verifier returns L and exp.
TokenRoundTrip ==
  (TokVerified /\ tok.kind = "none" /\ tok.vsecret = tok.secret /\ tok.vnow <= tok.exp)
    => /\ tok.res.ok
       /\ tok.res.locationId = tok.locationId
       /\ tok.res.expMillis = tok.exp

\* The round trip at the last accepted instant, with a two-digit expiry.
TokenRoundTripWitness ==
  /\ TokVerified /\ tok.kind = "none" /\ tok.vsecret = tok.secret
  /\ tok.exp = 10 /\ tok.vnow = 10
  /\ tok.res.ok /\ tok.res.locationId = tok.locationId /\ tok.res.expMillis = 10

\* The token was issued under one secret and verified unaltered under another
\* configured one, or was altered and verified under the issuing secret.
TokForged ==
  /\ TokVerified
  /\ getQrSecretOk(tok.vsecret)
  /\ \/ tok.kind = "none" /\ tok.vsecret # tok.secret
     \/ tok.kind # "none" /\ tok.vsecret = tok.secret

\* C10 (tamper evidence): verification under another secret, or of a token
\* whose character, field or field count was changed, fails with
\* permission-denied "Invalid token signature." or with invalid-argument; and
\* no token accepted under the issuing secret names another location or
\* another expiry than the issued one.
TokenTamperEvident ==
  /\ TokForged
       => /\ ~tok.res.ok
          /\ \/ tok.res.code = "permission-denied"
                /\ tok.res.message = "Invalid token signature."
             \/ tok.res.code = "invalid-argument"
  /\ (TokVerified /\ tok.vsecret = tok.secret /\ tok.res.ok)
       => tok.res.locationId = tok.locationId /\ tok.res.expMillis = tok.exp

\* A token whose location field was replaced by the other location, with
\* signature and expiry kept, is rejected for its signature.
TokenTamperWitness ==
  /\ TokForged /\ tok.kind = "field"
  /\ Split(tok.token)[1] # tok.locationId
  /\ Split(tok.token)[4] = signPayload(tok.secret,
                             Join3(tok.locationId, tok.nonce, ToDecimal(tok.exp)))
  /\ tok.res.code = "permission-denied"
  /\ tok.res.message = "Invalid token signature."

\* C11 (expiry): a correctly signed, unaltered token verified under its
\* issuing secret is rejected with permission-denied "Token has expired."
\* exactly when now > exp; it is accepted at now = exp, and no token is
\* accepted whose expiry is before the time of verification.
TokenExpiry ==
  (TokVerified /\ tok.kind = "none" /\ tok.vsecret = tok.secret)
    => /\ (tok.vnow > tok.exp)
            <=> (/\ ~tok.res.ok
                 /\ tok.res.code = "permission-denied"
                 /\ tok.res.message = "Token has expired.")
       /\ (tok.vnow <= tok.exp) <=> tok.res.ok

\* A correctly signed token verified one instant after its expiry is
\* rejected as expired.
TokenExpiryWitness ==
  /\ TokVerified /\ tok.kind = "none" /\ tok.vsecret = tok.secret
  /\ tok.exp = 9 /\ tok.vnow = 10
  /\ ~tok.res.ok /\ tok.res.message = "Token has expired."

\* Handler p of setUserRole writes the team document in this step.
SetUserRoleWrites(p) ==
  /\ procs[p].op = "setUserRole" /\ procs[p].pc = "sur_teamset"
  /\ procs'[p].pc = "sur_claims"

\* C12 (setUserRole is an idempotent upsert): the team write of setUserRole
\* with role leader leaves score, solved and createdAt of a team that exists
\* exactly as they were; score = 0 and createdAt are written only on a team
\* that did not exist.
SetUserRoleKeepsScore ==
  [][\A p \in Procs :
       (SetUserRoleWrites(p) /\ teams[procs[p].req.target].exists)
         => /\ teams'[procs[p].req.target].score = teams[procs[p].req.target].score
            /\ teams'[procs[p].req.target].solved = teams[procs[p].req.target].solved
            /\ teams'[procs[p].req.target].createdAt
                 = teams[procs[p].req.target].createdAt]_vars

(***************************************************************************)
(* Properties of bulkImportUsers, checked under SpecBulk.                  *)
(***************************************************************************)
RECURSIVE ExpectedErrors(_, _)
\* The errors of the first n rows: one entry per failing row, with its
\* 0-based index, in ascending order.
ExpectedErrors(rows, n) ==
  IF n = 0 THEN <<>>
  ELSE IF RowError(rows[n]) = "" THEN ExpectedErrors(rows, n - 1)
  ELSE Append(ExpectedErrors(rows, n - 1), [index |-> n - 1, code |-> RowError(rows[n])])

\* Handler p of bulkImportUsers has left its loop over the rows.
BulkLoopDone(p) ==
  /\ procs[p].op = "bulkImportUsers"
  /\ procs[p].pc \in {"refresh", "publish"} \/ (procs[p].pc = "done" /\ procs[p].code = "ok")

\* Row i of rows passes validation and no later passing row names its target.
LastPassingRow(rows, i) ==
  /\ RowError(rows[i]) = ""
  /\ \A j \in (i + 1)..Len(rows) :
       RowError(rows[j]) = "" => rows[j].target # rows[i].target

\* C13 (bulk import never aborts on a row): when bulkImportUsers has gone
\* through rows r[0..n-1], successCount + failureCount = n, errors holds one
\* entry per failing row with its 0-based index in ascending order, and every
\* row that passes validation is applied, also after a failing row.
BulkRowsAllProcessed ==
  \A p \in Procs :
    BulkLoopDone(p) =>
      LET rows == procs[p].req.rows
          out == procs[p].out
      IN  /\ out.successCount + out.failureCount = Len(rows)
          /\ out.errors = ExpectedErrors(rows, Len(rows))
          /\ out.failureCount = Len(out.errors)
          /\ \A i \in 1..Len(rows) :
               LastPassingRow(rows, i) =>
                 /\ roleOf[rows[i].target] = rows[i].role
                 /\ teams[rows[i].target].exists
                 /\ teams[rows[i].target].teamTag = rows[i].fields.teamTag
                 /\ teams[rows[i].target].groupId = rows[i].fields.groupId

\* Three rows, the second with a user that cannot be resolved: successCount
\* 2, failureCount 1, errors = [{index: 1, code: user-not-found}], and the
\* first and the third row applied.
BulkRowsWitness ==
  \E p \in Procs :
    /\ BulkLoopDone(p)
    /\ procs[p].req.rows =
         <<RoleRequest("u1", "leader", LeaderFields("Red", "tA", "m1", "g1")),
           RoleRequest("ghost", "leader", LeaderFields("Red", "tA", "m1", "g1")),
           RoleRequest("u2", "leader", LeaderFields("Blue", "tB", "m2", "g2"))>>
    /\ procs[p].out.successCount = 2
    /\ procs[p].out.failureCount = 1
    /\ procs[p].out.errors = <<[index |-> 1, code |-> "user-not-found"]>>
    /\ roleOf["u2"] = "leader" /\ teams["u2"].exists /\ teams["u2"].teamTag = "tB"

\* Handler p of bulkImportUsers applies a leader row to an existing team in
\* this step.
BulkRowWritesTeam(p) ==
  /\ procs[p].op = "bulkImportUsers" /\ procs[p].pc = "bi_row"
  /\ procs'[p].pc = "bi_claims"
  /\ procs[p].req.rows[procs[p].loc.index + 1].role = "leader"
  /\ teams[procs[p].req.rows[procs[p].loc.index + 1].target].exists

\* C14 (a bulk row is a setUserRole call): an accepted leader row leaves
\* the team of its target as setUserRole with the same fields leaves it: the
\* metadata of the row, and the score and the solved map the team had.
BulkRowAsSetUserRole ==
  [][\A p \in Procs :
       BulkRowWritesTeam(p) =>
         LET row == procs[p].req.rows[procs[p].loc.index + 1]
             asSetUserRole == SetUserRoleTeam(teams[row.target], row.target, row.fields,
                                              TRUE, now)
         IN  /\ teams'[row.target].teamTag = asSetUserRole.teamTag
             /\ teams'[row.target].groupId = asSetUserRole.groupId
             /\ teams'[row.target].score = asSetUserRole.score
             /\ teams'[row.target].solved = asSetUserRole.solved]_vars

(***************************************************************************)
(* The admin console: matches and groups written from the browser.         *)
(***************************************************************************)
\* matchHierarchy: the groups listed under match m.
HierarchyGroups(gs, m) == {g \in GroupIds : gs[g].exists /\ gs[g].matchId = m}

\* A console handler of an admin session that has returned.
ConsoleDone(op, req, code) == Answered(op, AdminUid, "admin", req, code, NoOut)

\* handleDeleteMatch, up to window.confirm: nothing without a selected
\* match; an error while the session lists groups under the match.
HandleDeleteMatch(p, selectedMatchId) ==
  /\ StartOk(p)
  /\ calls' = calls - 1
  /\ procs' = [procs EXCEPT ![p] =
       IF ~matches[selectedMatchId].exists
         THEN ConsoleDone("handleDeleteMatch", [matchId |-> selectedMatchId], "no-selection")
       ELSE IF Cardinality(HierarchyGroups(groups, selectedMatchId)) > 0
         THEN ConsoleDone("handleDeleteMatch", [matchId |-> selectedMatchId], "has-groups")
       ELSE Running("handleDeleteMatch", "dm_delete", AdminUid, "admin",
                    [matchId |-> selectedMatchId], NoOut)]
  /\ UNCHANGED <<tok, now, roleOf, teams, claims, locations, matches, groups, settings,
                 leaderboard>>

\* deleteMatchById: deleteDoc(doc(db, 'matches', id)).
deleteMatchById(p) ==
  /\ At(p, "handleDeleteMatch", "dm_delete")
  /\ matches' = [matches EXCEPT ![procs[p].req.matchId].exists = FALSE]
  /\ procs' = [procs EXCEPT ![p].pc = "done", ![p].code = "ok"]
  /\ UNCHANGED <<tok, now, roleOf, teams, claims, locations, groups, settings, leaderboard,
                 calls>>

\* The document ids addDoc can still give to a group.
FreeGroupIds == {g \in GroupIds : ~groups[g].exists}

\* handleCreateGroup, up to createGroup: the target match is one the session
\* lists, the name is not blank.
HandleCreateGroup(p, targetMatchId) ==
  /\ StartOk(p)
  /\ calls' = calls - 1
  /\ matches[targetMatchId].exists
  /\ Cardinality(FreeGroupIds)
       > Cardinality({q \in Procs : procs[q].op = "handleCreateGroup"
                                      /\ procs[q].pc = "cg_add"})
  /\ procs' = [procs EXCEPT ![p] =
       Running("handleCreateGroup", "cg_add", AdminUid, "admin",
               [matchId |-> targetMatchId], NoOut)]
  /\ UNCHANGED <<tok, now, roleOf, teams, claims, locations, matches, groups, settings,
                 leaderboard>>

\* createGroup: addDoc(collection(db, 'groups'), {...input, ...}).
createGroup(p) ==
  /\ At(p, "handleCreateGroup", "cg_add")
  /\ \E g \in FreeGroupIds :
       /\ groups' = [groups EXCEPT ![g] =
            [exists |-> TRUE, matchId |-> procs[p].req.matchId, name |-> "G",
             order |-> 1, startAt |-> NoTime, endAt |-> NoTime, isActive |-> TRUE]]
  /\ procs' = [procs EXCEPT ![p].pc = "done", ![p].code = "ok"]
  /\ UNCHANGED <<tok, now, roleOf, teams, claims, locations, matches, settings, leaderboard,
                 calls>>

\* handleDeleteGroup, up to window.confirm: nothing when the session does not
\* list the group.
HandleDeleteGroup(p, groupId) ==
  /\ StartOk(p)
  /\ calls' = calls - 1
  /\ procs' = [procs EXCEPT ![p] =
       IF ~groups[groupId].exists
         THEN ConsoleDone("handleDeleteGroup", [groupId |-> groupId], "no-selection")
       ELSE Running("handleDeleteGroup", "dg_delete", AdminUid, "admin",
                    [groupId |-> groupId], NoOut)]
  /\ UNCHANGED <<tok, now, roleOf, teams, claims, locations, matches, groups, settings,
                 leaderboard>>

\* deleteGroupById: deleteDoc(doc(db, 'groups', id)).
deleteGroupById(p) ==
  /\ At(p, "handleDeleteGroup", "dg_delete")
  /\ groups' = [groups EXCEPT ![procs[p].req.groupId].exists = FALSE]
  /\ procs' = [procs EXCEPT ![p].pc = "done", ![p].code = "ok"]
  /\ UNCHANGED <<tok, now, roleOf, teams, claims, locations, matches, settings, leaderboard,
                 calls>>

\* Two admin sessions at the console.
InitConsole == InitSys(MaxCalls) /\ tok = NoTok

NextConsole ==
  \E p \in Procs :
    \/ \E m \in MatchIds : HandleDeleteMatch(p, m)
    \/ deleteMatchById(p)
    \/ \E m \in MatchIds : HandleCreateGroup(p, m)
    \/ createGroup(p)
    \/ \E g \in GroupIds : HandleDeleteGroup(p, g)
    \/ deleteGroupById(p)
    \/ Return(p)

SpecConsole == InitConsole /\ [][NextConsole]_vars

\* C15 (a group's match exists): in every reachable state the matchId of
\* every group is the id of an existing match.
GroupMatchExists ==
  \A g \in GroupIds : groups[g].exists => matches[groups[g].matchId].exists

(***************************************************************************)
(* The leaderboard over the stores the event can be in.                    *)
(***************************************************************************)
\* The solved maps a team can hold: nothing, L1 solved at 0 or at 1, L2
\* solved at 1, both.
BoardSolved(at1, at2) ==
  [l \in {x \in LocIds : (x = Loc1 /\ at1 # NoTime) \/ (x = Loc2 /\ at2 # NoTime)} |->
     [at |-> IF l = Loc1 THEN at1 ELSE at2, points |-> computePoints(LocationDocs[l])]]

BoardSolvedPool ==
  {BoardSolved(NoTime, NoTime), BoardSolved(0, NoTime), BoardSolved(1, NoTime),
   BoardSolved(NoTime, 1), BoardSolved(0, 1)}

\* A team as setUserRole, the accepted claims and setTeamGroup leave it.
BoardTeam(uid, name, tag, matchId, groupId, solved) ==
  LET created == [BlankTeam EXCEPT
                    !.name = name, !.teamTag = tag, !.leaderEmail = EmailOf(uid),
                    !.matchId = matchId, !.matchName = MatchDocs[matchId].name,
                    !.groupId = groupId, !.groupName = GroupDocs[groupId].name,
                    !.updatedAt = 0, !.createdAt = 0]
      at == MaxAt(solved, DOMAIN solved)
  IN  [created EXCEPT !.score = SumPoints(solved, DOMAIN solved),
                      !.hasSolved = (DOMAIN solved # {}),
                      !.solved = solved,
                      !.updatedAt = IF at = NoTime THEN 0 ELSE at]

\* A team written by setUserRole before teams carried a match and a group.
LegacyTeam(uid, name, tag, solved) ==
  LET at == MaxAt(solved, DOMAIN solved)
  IN  [BlankTeam EXCEPT
         !.name = name, !.teamTag = tag, !.leaderEmail = EmailOf(uid),
         !.score = SumPoints(solved, DOMAIN solved),
         !.hasSolved = (DOMAIN solved # {}),
         !.solved = solved,
         !.updatedAt = IF at = NoTime THEN 0 ELSE at,
         !.createdAt = 0]

BoardPlacements == {<<"m1", "g1">>, <<"m2", "g2">>}

BoardTeamPool(uid, name, tag) ==
  {BoardTeam(uid, name, tag, pl[1], pl[2], solved) :
     pl \in BoardPlacements, solved \in BoardSolvedPool}

\* The hierarchy as the console leaves it: untouched, group g2 deleted, or
\* match m2 deleted under group g2.
BoardHierarchies ==
  {[ms |-> MatchDocs, gs |-> GroupDocs],
   [ms |-> MatchDocs, gs |-> [GroupDocs EXCEPT !["g2"].exists = FALSE]],
   [ms |-> [MatchDocs EXCEPT !["m2"].exists = FALSE], gs |-> GroupDocs]}

\* settings/runtime as the console and setFreezeState leave it.
BoardSettingsPool ==
  {[SettingsDoc EXCEPT !.freezeAt = fe[1], !.eventEnd = fe[2],
                       !.hasFreezeOverride = (ov # Missing),
                       !.freezeOverride = (ov = "true")] :
     fe \in {<<1, 2>>, <<NoTime, 2>>, <<1, NoTime>>, <<NoTime, NoTime>>},
     ov \in FrozenInputs}

\* The claims log of the solved maps of the teams.
BoardClaims(ts) ==
  SetToBag(UNION {{ClaimRecord(u, l, ts[u].solved[l].points, ts[u].solved[l].at, "leader") :
                     l \in DOMAIN ts[u].solved} : u \in {x \in Users : ts[x].exists}})

InitBoard ==
  /\ now \in 0..MaxNow
  /\ locations = LocationDocs
  /\ \E h \in BoardHierarchies : matches = h.ms /\ groups = h.gs
  /\ \E t1 \in BoardTeamPool("u1", "Red", "tA"),
        t2 \in BoardTeamPool("u2", "Blue", "tB")
                 \cup {LegacyTeam("u2", "Blue", "tB", solved) :
                         solved \in {BoardSolved(NoTime, NoTime), BoardSolved(0, NoTime)}}
                 \cup {NoDoc} :
       teams = [u \in Users |-> IF u = "u1" THEN t1 ELSE IF u = "u2" THEN t2 ELSE NoDoc]
  /\ \A u \in Users : teams[u].exists => teams[u].updatedAt <= now
  /\ roleOf = [u \in Users |-> IF u = AdminUid THEN "admin"
                               ELSE IF teams[u].exists THEN "leader" ELSE NoRole]
  /\ settings \in BoardSettingsPool
  /\ settings = SettingsDoc \/ (teams["u1"] = BoardTeam("u1", "Red", "tA", "m1", "g1", <<>>)
                                /\ ~teams["u2"].exists /\ matches = MatchDocs
                                /\ groups = GroupDocs)
  /\ claims = BoardClaims(teams)
  /\ leaderboard = LeaderboardSet(NoDoc, LeaderboardPayload(matches, groups, teams, locations,
                                                            settings, now))
  /\ procs = [p \in Procs |-> IdleProc]
  /\ calls = MaxGateCalls
  /\ tok = NoTok

TeamGroupRequestsBoard ==
  {[teamId |-> "u1", matchId |-> "m1", groupId |-> "g1"],
   [teamId |-> "u1", matchId |-> "m2", groupId |-> "g2"]}

NextBoard ==
  \/ \E p \in Procs :
       \/ SetTeamGroupStep(p, {AdminUid}, TeamGroupRequestsBoard)
       \/ Refresh(p)
       \/ Publish(p)
       \/ Return(p)
  \/ Tick

SpecBoard == InitBoard /\ [][NextBoard]_vars

\* Handler p reads the five collections and computes the payload in this
\* step.
RefreshStepOf(p) == procs[p].pc = "refresh" /\ procs'[p].pc = "publish"

\* Handler p writes leaderboard_public/runtime in this step.
PublishStepOf(p) == procs[p].pc = "publish" /\ procs'[p].pc = "done"

\* The part of the document the public board shows.
BoardOutput(doc) == <<doc.matches, doc.masked, doc.unassignedNotice>>

BoardRows(ms) ==
  UNION {UNION {{[matchId |-> ms[i].id, groupId |-> ms[i].groups[j].id,
                  entry |-> ms[i].groups[j].entries[k]] :
                   k \in 1..Len(ms[i].groups[j].entries)} :
                j \in 1..Len(ms[i].groups)} :
         i \in 1..Len(ms)}

\* The groups of a board.
BoardGroups(ms) ==
  UNION {{ms[i].groups[j] : j \in 1..Len(ms[i].groups)} : i \in 1..Len(ms)}

\* The ranking of C17: a is listed before b.
RanksBefore(a, b) ==
  IF a.score # b.score THEN a.score > b.score
  ELSE IF a.elapsedSeconds # b.elapsedSeconds
    THEN a.elapsedSeconds # NoTime
         /\ (b.elapsedSeconds = NoTime \/ a.elapsedSeconds < b.elapsedSeconds)
  ELSE IF a.lastSolveAt # b.lastSolveAt
    THEN a.lastSolveAt # NoTime /\ (b.lastSolveAt = NoTime \/ a.lastSolveAt < b.lastSolveAt)
  ELSE localeCompare(a.teamName, b.teamName) < 0

\* C17 (ranking inside a group): in every group of the board a run computes,
\* two entries with different team names are listed by score descending, then
\* smaller elapsedSeconds (non-null first), then earlier lastSolveAt (present
\* first), then team name ascending, and entrySorter does not return 0 for
\* them.
EntriesRanked ==
  [][\A p \in Procs :
       RefreshStepOf(p) =>
         \A g \in BoardGroups(procs'[p].loc.matches) :
           \A i, j \in 1..Len(g.entries) :
             (i < j /\ g.entries[i].teamName # g.entries[j].teamName) =>
               /\ RanksBefore(g.entries[i], g.entries[j])
               /\ entrySorter(g.entries[i], g.entries[j]) # 0]_vars

\* The rows of team t on the board.
RowsOfTeam(ms, t) == {r \in BoardRows(ms) : r.entry.teamId = t}

\* The statistics an entry shows.
EntryStats(e) ==
  [points |-> e.score, lastSolve |-> e.lastSolveAt, solvedCount |-> e.solvedCount]

\* The solved locations of a team whose location document names match m.
SolvedIn(team, m) ==
  {l \in DOMAIN team.solved : DocOf(locations, l).exists /\ locations[l].matchId = m}

NoStats == [points |-> 0, lastSolve |-> NoTime, solvedCount |-> 0]

Unassigned(team) ==
  \/ team.matchId = NoMatch \/ ~DocOf(matches, team.matchId).exists
  \/ team.groupId = NoGroup \/ ~DocOf(groups, team.groupId).exists
  \/ ~DocOf(matches, groups[team.groupId].matchId).exists

\* C19 (unassigned teams): on the board a run computes, an unassigned team
\* is listed under the sentinel group of the sentinel match and
\* unassignedNotice is true; when no team is unassigned, unassignedNotice is
\* false and the sentinel match is absent.
UnassignedUnderSentinel ==
  [][\A p \in Procs :
       RefreshStepOf(p) =>
         LET board == procs'[p].loc IN
         /\ \A t \in Users :
              (teams[t].exists /\ Unassigned(teams[t])) =>
                /\ board.unassignedNotice
                /\ RowsOfTeam(board.matches, t) # {}
                /\ \A r \in RowsOfTeam(board.matches, t) :
                     r.matchId = FallbackId /\ r.groupId = FallbackId
         /\ (\A t \in Users : teams[t].exists => ~Unassigned(teams[t])) =>
              /\ ~board.unassignedNotice
              /\ \A i \in 1..Len(board.matches) : board.matches[i].id # FallbackId]_vars

\* Match m2 was deleted under group g2, the group of team u2: the board
\* lists u2 under the sentinel with the notice.
UnassignedWitness ==
  \E p \in Procs :
    /\ procs[p].pc = "publish"
    /\ ~matches["m2"].exists /\ groups["g2"].exists
    /\ teams["u2"].exists /\ teams["u2"].groupId = "g2"
    /\ procs[p].loc.unassignedNotice
    /\ \E r \in RowsOfTeam(procs[p].loc.matches, "u2") :
         r.matchId = FallbackId /\ r.groupId = FallbackId

\* C20 (masked): the board a run computes is masked when freezeOverride is
\* true; otherwise exactly when freezeAt and eventEnd are both set and
\* freezeAt <= now < eventEnd.
MaskedAsSpecified ==
  [][\A p \in Procs :
       RefreshStepOf(p) =>
         procs'[p].loc.masked =
           IF settings.hasFreezeOverride /\ settings.freezeOverride THEN TRUE
           ELSE /\ settings.freezeAt # NoTime
                /\ settings.eventEnd # NoTime
                /\ settings.freezeAt <= now
                /\ now < settings.eventEnd]_vars

\* A run at now = eventEnd, after the freeze began and without override,
\* has computed an unmasked board.
MaskedWitness ==
  \E p \in Procs :
    /\ procs[p].pc = "publish"
    /\ ~(settings.hasFreezeOverride /\ settings.freezeOverride)
    /\ settings.freezeAt # NoTime /\ settings.freezeAt < settings.eventEnd
    /\ procs[p].loc.updatedAt = settings.eventEnd
    /\ ~procs[p].loc.masked

(***************************************************************************)
(* Claims around the freeze.                                               *)
(***************************************************************************)
\* The leaderboard document as the earlier schema wrote it: an entries
\* array next to masked and updatedAt.
LegacyBoard(doc) == [doc EXCEPT !.legacyEntries = TRUE]

\* The runtime settings around the freeze: freezeOverride absent, false or
\* true, with freezeAt set or unset.
FreezeSettingsPool == {s \in BoardSettingsPool : s.eventEnd # NoTime}

\* Team u1 in m1/g1 with nothing or L1 solved, team u2 absent or without
\* match and group, the runtime settings around the freeze, and a board
\* refreshed at the start of the event, by the present schema alone or over
\* a document of the earlier one.
InitFreeze ==
  /\ now = 0
  /\ locations = LocationDocs
  /\ matches = MatchDocs
  /\ groups = GroupDocs
  /\ \E t1 \in {BoardTeam("u1", "Red", "tA", "m1", "g1", solved) :
                  solved \in {BoardSolved(NoTime, NoTime), BoardSolved(0, NoTime)}},
        t2 \in {NoDoc, LegacyTeam("u2", "Blue", "tB", BoardSolved(NoTime, NoTime))} :
       teams = [u \in Users |-> IF u = "u1" THEN t1 ELSE IF u = "u2" THEN t2 ELSE NoDoc]
  /\ roleOf = [u \in Users |-> IF u = AdminUid THEN "admin"
                               ELSE IF teams[u].exists THEN "leader" ELSE NoRole]
  /\ settings \in FreezeSettingsPool
  /\ claims = BoardClaims(teams)
  /\ \E legacy \in BOOLEAN :
       LET doc == LeaderboardSet(NoDoc, LeaderboardPayload(matches, groups, teams, locations,
                                                           settings, now))
       IN leaderboard = IF legacy THEN LegacyBoard(doc) ELSE doc
  /\ procs = [p \in Procs |-> IdleProc]
  /\ calls = MaxGateCalls
  /\ tok = NoTok

ClaimRequestsFreeze ==
  {[token |-> ValidToken1, providedKeyword |-> "k1", providedTeamTag |-> "tA"],
   [token |-> ValidToken1, providedKeyword |-> "k1", providedTeamTag |-> "tB"],
   [token |-> ValidToken1, providedKeyword |-> "k2", providedTeamTag |-> "tA"]}

NextFreeze ==
  \/ \E p \in Procs :
       \/ ClaimStep(p, {"u1", "u2"}, ClaimRequestsFreeze)
       \/ Refresh(p)
       \/ Publish(p)
       \/ Return(p)
  \/ Tick

SpecFreeze == InitFreeze /\ [][NextFreeze]_vars

\* The checks of the claim transaction all pass on these documents.
ClaimPasses(team, location, locationId, providedKeyword, providedTeamTag) ==
  /\ team.exists /\ location.exists
  /\ ~(team.matchId # NoMatch /\ location.matchId # NoMatch
       /\ team.matchId # location.matchId)
  /\ team.teamTag = providedTeamTag
  /\ location.boxKeyword = providedKeyword
  /\ location.isActive
  /\ locationId \notin DOMAIN team.solved
  /\ location.basePoints > 0

\* Handler p of claim runs the transaction body on documents that are still
\* the stored ones, and the checks pass.
ClaimCommits(p) ==
  /\ procs[p].op = "claim" /\ procs[p].pc = "claim_txcommit"
  /\ procs'[p].pc # "claim_txcommit"
  /\ procs[p].loc.teamSnap = DocOf(teams, procs[p].uid)
  /\ procs[p].loc.locationSnap = DocOf(locations, procs[p].req.locationId)
  /\ ClaimPasses(procs[p].loc.teamSnap, procs[p].loc.locationSnap, procs[p].req.locationId,
                 procs[p].req.providedKeyword, procs[p].req.providedTeamTag)

\* The freeze: the override, or freezeAt <= now < eventEnd.
Frozen ==
  \/ settings.hasFreezeOverride /\ settings.freezeOverride
  \/ settings.freezeAt # NoTime /\ settings.eventEnd # NoTime
     /\ settings.freezeAt <= now /\ now < settings.eventEnd

FrozenBoardUnchanged ==
  [][\A p \in Procs :
       (PublishStepOf(p) /\ procs[p].op = "claim" /\ Frozen /\ procs[p].loc.masked) =>
         leaderboard'.matches = leaderboard.matches]_vars

\* C23 (wholesale replacement): after a run has written the public
\* leaderboard document, the document holds the five fields of that run and
\* no field of the document it replaced.
BoardReplacedWholesale ==
  [][\A p \in Procs :
       PublishStepOf(p) =>
         /\ leaderboard'.schemaVersion = procs[p].loc.schemaVersion
         /\ BoardOutput(leaderboard') = BoardOutput(procs[p].loc)
         /\ leaderboard'.updatedAt = procs[p].loc.updatedAt
         /\ ~leaderboard'.legacyEntries]_vars

\* No request is left to come and no handler is in flight.
Quiescent == calls = 0 /\ \A p \in Procs : procs[p].pc \in {"idle", "done"}

\* C24 (eventual consistency): once every request has finished, the matches
\* array and unassignedNotice of the stored public leaderboard are the
\* aggregation of the stored teams, locations, matches and groups.
BoardConsistentAtRest ==
  Quiescent =>
    LET final == LeaderboardPayload(matches, groups, teams, locations, settings, now)
    IN  /\ leaderboard.matches = final.matches
        /\ leaderboard.unassignedNotice = final.unassignedNotice

(***************************************************************************)
(* A refresh that fails.                                                   *)
(***************************************************************************)
\* A plausible slip: the rejection of updatePublicLeaderboard is not caught
\* and the call answers with an error.
RefreshThrown(me) ==
  [me EXCEPT !.pc = "done", !.loc = NoOut, !.code = "internal", !.out = NoOut]

\* await updatePublicLeaderboard().catch(logger.error): the handler goes on
\* to its response.
RefreshCaught(me) == [me EXCEPT !.pc = "done", !.loc = NoOut, !.code = "ok"]

\* updatePublicLeaderboard rejects: one of its reads or its write fails.
RefreshFails(p) ==
  /\ ResponsesSent
  /\ procs[p].pc \in {"refresh", "publish"}
  /\ procs' = [procs EXCEPT ![p] = RefreshCaught(@)]
  /\ UNCHANGED <<tok, now, roleOf, teams, claims, locations, matches, groups, settings,
                 leaderboard, calls>>

InitRefresh == InitSys(MaxProcs) /\ tok = NoTok

RoleRequestsRefresh ==
  RoleRequestsPair \cup {RoleRequest("u2", "leader", LeaderFields("Blue", "tB", "m1", "g2"))}

TeamGroupRequestsRefresh ==
  TeamGroupRequestsPair \cup {[teamId |-> "u2", matchId |-> "m1", groupId |-> "g1"]}

NextRefresh ==
  \E p \in Procs :
    \/ ClaimStep(p, {"u1", "u2"}, ClaimRequestsPair)
    \/ SetUserRoleStep(p, {AdminUid}, RoleRequestsRefresh)
    \/ SetTeamGroupStep(p, {AdminUid}, TeamGroupRequestsRefresh)
    \/ BulkImportStep(p, {AdminUid}, RowSeqsPair)
    \/ Refresh(p)
    \/ Publish(p)
    \/ RefreshFails(p)
    \/ Return(p)

SpecRefresh == InitRefresh /\ [][NextRefresh]_vars

\* The operations that end with a refresh.
RefreshOps == {"claim", "setUserRole", "setTeamGroup", "bulkImportUsers"}

\* Handler p answers in this step.
AnswersIn(p) == procs[p].pc \notin {"idle", "done"} /\ procs'[p].pc = "done"

\* C25 (refresh after every successful call): a call of claim, setUserRole,
\* setTeamGroup or bulkImportUsers that answers with success has run one
\* refresh after its writes, and a call that answers with an error has run
\* none and leaves the board alone; a refresh that fails still ends in the
\* success response, with the teams, roles and claims as committed.
RefreshAfterSuccess ==
  [][\A p \in Procs :
       /\ (AnswersIn(p) /\ procs[p].op \in RefreshOps /\ procs'[p].code = "ok") =>
            procs[p].pc \in {"refresh", "publish"}
       /\ (AnswersIn(p) /\ procs[p].op \in RefreshOps /\ procs'[p].code # "ok") =>
            /\ procs[p].pc \notin {"refresh", "publish"}
            /\ leaderboard' = leaderboard
       /\ (procs[p].pc = "publish" /\ procs'[p].pc # "publish") => procs'[p].pc = "done"
       /\ (procs[p].pc = "refresh" /\ procs'[p].pc # "refresh") =>
            procs'[p].pc \in {"publish", "done"}
       /\ (procs[p].pc \in {"refresh", "publish"} /\ procs'[p].pc = "done") =>
            /\ procs'[p].out = procs[p].out
            /\ procs'[p].out # NoOut
            /\ teams' = teams /\ roleOf' = roleOf /\ claims' = claims]_vars

\* The refresh of an accepted claim failed: the call has answered with
\* pointsAwarded 200, the team holds the 200 points, and the board still shows
\* the team with 0.
RefreshFailedWitness ==
  \E p \in Procs :
    /\ procs[p].op = "claim" /\ procs[p].pc = "done" /\ procs[p].code = "ok"
    /\ procs[p].uid = "u1" /\ procs[p].out.pointsAwarded = 200
    /\ teams["u1"].score = 200
    /\ \E r \in RowsOfTeam(leaderboard.matches, "u1") : r.entry.score = 0

(***************************************************************************)
(* The phase of the event, as the client computes it (lib/time).           *)
(***************************************************************************)
\* toDate: undefined for a missing or null field, else the instant of the
\* Timestamp.
toDate(value) == IF value = NoTime THEN NoTime ELSE value

PhaseState(phase, countdownTarget, isLeaderboardVisible) ==
  [phase |-> phase, countdownTarget |-> countdownTarget,
   isLeaderboardVisible |-> isLeaderboardVisible]

\* A plausible slip: the freeze is tested before the end of the event.
computePhaseStateFrozenFirst(runtime, dateNow) ==
  IF ~runtime.exists THEN PhaseState("unknown", NoTime, FALSE)
  ELSE LET eventStart == toDate(runtime.eventStart)
           freezeAt == toDate(runtime.freezeAt)
           eventEnd == toDate(runtime.eventEnd)
       IN  IF eventStart = NoTime \/ eventEnd = NoTime
             THEN PhaseState("unknown", NoTime, FALSE)
           ELSE IF dateNow < eventStart THEN PhaseState("pre", eventStart, FALSE)
           ELSE IF freezeAt # NoTime /\ dateNow >= freezeAt
             THEN PhaseState("frozen", eventEnd, FALSE)
           ELSE IF dateNow >= eventEnd THEN PhaseState("finished", NoTime, TRUE)
           ELSE PhaseState("running", IF freezeAt # NoTime THEN freezeAt ELSE eventEnd, TRUE)

\* A plausible slip: the comparison with freezeAt is reversed.
computePhaseStateFreezeReversed(runtime, dateNow) ==
  IF ~runtime.exists THEN PhaseState("unknown", NoTime, FALSE)
  ELSE LET eventStart == toDate(runtime.eventStart)
           freezeAt == toDate(runtime.freezeAt)
           eventEnd == toDate(runtime.eventEnd)
       IN  IF eventStart = NoTime \/ eventEnd = NoTime
             THEN PhaseState("unknown", NoTime, FALSE)
           ELSE IF dateNow < eventStart THEN PhaseState("pre", eventStart, FALSE)
           ELSE IF dateNow >= eventEnd THEN PhaseState("finished", NoTime, TRUE)
           ELSE IF freezeAt # NoTime /\ dateNow < freezeAt
             THEN PhaseState("frozen", eventEnd, FALSE)
           ELSE PhaseState("running", IF freezeAt # NoTime THEN freezeAt ELSE eventEnd, TRUE)

\* computePhaseState(runtime, now); runtime is null when settings/runtime
\* has no data, and a result without countdownTarget carries NoTime.
computePhaseState(runtime, dateNow) ==
  IF ~runtime.exists THEN PhaseState("unknown", NoTime, FALSE)
  ELSE LET eventStart == toDate(runtime.eventStart)
           freezeAt == toDate(runtime.freezeAt)
           eventEnd == toDate(runtime.eventEnd)
       IN  IF eventStart = NoTime \/ eventEnd = NoTime
             THEN PhaseState("unknown", NoTime, FALSE)
           ELSE IF dateNow < eventStart THEN PhaseState("pre", eventStart, FALSE)
           ELSE IF dateNow >= eventEnd THEN PhaseState("finished", NoTime, TRUE)
           ELSE IF freezeAt # NoTime /\ dateNow >= freezeAt
             THEN PhaseState("frozen", eventEnd, FALSE)
           ELSE PhaseState("running", IF freezeAt # NoTime THEN freezeAt ELSE eventEnd, TRUE)

\* MainApp renders: the phase of the settings snapshot at the present time.
RenderPhase(p) ==
  /\ StartOk(p)
  /\ calls' = calls - 1
  /\ procs' = [procs EXCEPT ![p] =
       Answered("computePhaseState", NoUid, NoRole, [runtime |-> settings, now |-> now],
                "ok", computePhaseState(settings, now))]
  /\ UNCHANGED <<tok, now, roleOf, teams, claims, locations, matches, groups, settings,
                 leaderboard>>

\* settings/runtime absent, or with each of its three times set or unset,
\* in order or not.
PhaseSettingsPool ==
  {[SettingsDoc EXCEPT !.exists = FALSE]}
    \cup {[SettingsDoc EXCEPT !.eventStart = es, !.freezeAt = fa, !.eventEnd = ee] :
            es \in {NoTime, 0, 1, 2}, fa \in {NoTime, 0, 1, 2}, ee \in {NoTime, 1, 2}}

InitPhase ==
  /\ now = 0
  /\ roleOf = [u \in Users |-> IF u = AdminUid THEN "admin" ELSE NoRole]
  /\ locations = LocationDocs
  /\ matches = MatchDocs
  /\ groups = GroupDocs
  /\ settings \in PhaseSettingsPool
  /\ teams = [u \in Users |-> NoDoc]
  /\ claims = EmptyBag
  /\ leaderboard = NoDoc
  /\ procs = [p \in Procs |-> IdleProc]
  /\ calls = MaxCalls
  /\ tok = NoTok

NextPhase ==
  \/ \E p \in Procs : RenderPhase(p) \/ Return(p)
  \/ Tick

SpecPhase == InitPhase /\ [][NextPhase]_vars

\* The phases computed so far.
PhasesComputed ==
  {[runtime |-> procs[p].req.runtime, now |-> procs[p].req.now, state |-> procs[p].out] :
     p \in {q \in Procs : procs[q].op = "computePhaseState" /\ procs[q].pc = "done"}}

\* settings, eventStart or eventEnd is missing.
PhaseInputMissing(runtime) ==
  ~runtime.exists \/ runtime.eventStart = NoTime \/ runtime.eventEnd = NoTime

\* C26 (phases of the event): unknown and hidden when settings, eventStart
\* or eventEnd is missing; else pre before eventStart (countdown to
\* eventStart, hidden); else finished from eventEnd on (visible); else frozen
\* from a set freezeAt on (countdown to eventEnd, hidden); else running
\* (countdown to freezeAt if set, otherwise eventEnd; visible); the
\* leaderboard is visible exactly in running and finished.
PhaseAsSpecified ==
  \A c \in PhasesComputed :
    LET r == c.runtime
        n == c.now
        st == c.state
    IN  /\ PhaseInputMissing(r) => (st.phase = "unknown" /\ ~st.isLeaderboardVisible)
        /\ (~PhaseInputMissing(r) /\ n < r.eventStart) =>
             (st.phase = "pre" /\ st.countdownTarget = r.eventStart
                /\ ~st.isLeaderboardVisible)
        /\ (~PhaseInputMissing(r) /\ n >= r.eventStart /\ n >= r.eventEnd) =>
             (st.phase = "finished" /\ st.isLeaderboardVisible)
        /\ (~PhaseInputMissing(r) /\ n >= r.eventStart /\ n < r.eventEnd
              /\ r.freezeAt # NoTime /\ n >= r.freezeAt) =>
             (st.phase = "frozen" /\ st.countdownTarget = r.eventEnd
                /\ ~st.isLeaderboardVisible)
        /\ (~PhaseInputMissing(r) /\ n >= r.eventStart /\ n < r.eventEnd
              /\ (r.freezeAt = NoTime \/ n < r.freezeAt)) =>
             (st.phase = "running"
                /\ st.countdownTarget = (IF r.freezeAt # NoTime THEN r.freezeAt ELSE r.eventEnd)
                /\ st.isLeaderboardVisible)
        /\ st.isLeaderboardVisible <=> st.phase \in {"running", "finished"}

\* The event is over and the freeze time has passed as well: the phase
\* computed is finished, not frozen.
PhaseFinishedWitness ==
  \E c \in PhasesComputed :
    /\ ~PhaseInputMissing(c.runtime)
    /\ c.runtime.freezeAt # NoTime /\ c.now >= c.runtime.freezeAt
    /\ c.now >= c.runtime.eventEnd
    /\ c.state.phase = "finished"

(***************************************************************************)
(* The checks of the claim transaction, on locations as the console        *)
(* leaves them.                                                            *)
(***************************************************************************)
\* basePoints and difficulty as the location form and the CSV import store
\* them: the defaults of the seed, an emptied basePoints field (0), a
\* fractional difficulty, a difficulty of 0 and a negative one.
CheckPointsPool ==
  {[basePoints |-> 100, difficulty |-> 2, difficultyDen |-> 1],
   [basePoints |-> 150, difficulty |-> 0, difficultyDen |-> 1],
   [basePoints |-> 15, difficulty |-> 3, difficultyDen |-> 2],
   [basePoints |-> 100, difficulty |-> -1, difficultyDen |-> 1],
   [basePoints |-> 0, difficulty |-> 2, difficultyDen |-> 1]}

\* Location L1 deleted, or moved to another match or to none, switched off,
\* with any of the point settings.
CheckLocationPool ==
  {NoDoc} \cup
    {[LocationDocs[Loc1] EXCEPT !.matchId = m, !.isActive = a,
                                !.basePoints = pt.basePoints,
                                !.difficulty = pt.difficulty,
                                !.difficultyDen = pt.difficultyDen] :
       m \in {"m1", "m2", NoMatch}, a \in BOOLEAN, pt \in CheckPointsPool}

\* Team u1 in m1/g1 with nothing or L1 solved, team u2 without match and
\* group, the admin without team.
InitCheck ==
  /\ now = 1
  /\ locations \in {[LocationDocs EXCEPT ![Loc1] = l] : l \in CheckLocationPool}
  /\ matches = MatchDocs
  /\ groups = GroupDocs
  /\ \E solved \in {BoardSolved(NoTime, NoTime), BoardSolved(0, NoTime)} :
       teams = [u \in Users |->
                  IF u = "u1" THEN BoardTeam("u1", "Red", "tA", "m1", "g1", solved)
                  ELSE IF u = "u2"
                    THEN LegacyTeam("u2", "Blue", "tB", BoardSolved(NoTime, NoTime))
                  ELSE NoDoc]
  /\ roleOf = [u \in Users |-> IF u = AdminUid THEN "admin" ELSE "leader"]
  /\ settings = SettingsDoc
  /\ claims = BoardClaims(teams)
  /\ leaderboard = LeaderboardSet(NoDoc, LeaderboardPayload(matches, groups, teams, locations,
                                                            settings, 0))
  /\ procs = [p \in Procs |-> IdleProc]
  /\ calls = MaxGateCalls
  /\ tok = NoTok

ClaimRequestsCheck ==
  [token : {ValidToken1}, providedKeyword : {"k1", "k2"}, providedTeamTag : {"tA", "tB"}]

NextCheck ==
  \E p \in Procs :
    \/ ClaimStep(p, {"u1", "u2", AdminUid}, ClaimRequestsCheck)
    \/ Refresh(p)
    \/ Publish(p)
    \/ Return(p)

SpecCheck == InitCheck /\ [][NextCheck]_vars

\* Handler p of claim leaves the transaction body in this step: it answers
\* with an error or goes on to the refresh.
ClaimBodyEnds(p) ==
  /\ procs[p].op = "claim" /\ procs[p].pc = "claim_txcommit"
  /\ procs'[p].pc \in {"done", "refresh"}

\* The checks of the transaction in the order of the list, each with
\* whether it fails on these documents and the error it raises.
ChecksInOrder(team, location, locationId, providedKeyword, providedTeamTag) ==
  LET both == team.exists /\ location.exists
  IN  <<[fails |-> ~team.exists, code |-> "failed-precondition"],
        [fails |-> ~location.exists, code |-> "not-found"],
        [fails |-> both /\ team.matchId # NoMatch /\ location.matchId # NoMatch
                     /\ team.matchId # location.matchId,
         code |-> "permission-denied"],
        [fails |-> both /\ team.teamTag # providedTeamTag, code |-> "permission-denied"],
        [fails |-> both /\ location.boxKeyword # providedKeyword, code |-> "permission-denied"],
        [fails |-> both /\ ~location.isActive, code |-> "failed-precondition"],
        [fails |-> both /\ locationId \in DOMAIN team.solved, code |-> "already-exists"],
        [fails |-> both /\ location.basePoints <= 0, code |-> "failed-precondition"]>>

SolvedWithinMatch ==
  [][\A p \in Procs :
       (procs[p].op = "claim" /\ procs[p].pc = "claim_txcommit"
          /\ procs'[p].pc = "refresh") =>
         /\ locations[procs[p].req.locationId].matchId # NoMatch
         /\ teams[procs[p].uid].matchId # NoMatch
         /\ locations[procs[p].req.locationId].matchId = teams[procs[p].uid].matchId]_vars

\* round(basePoints * d), d the difficulty when it is positive and 1
\* otherwise: the integer r with r - 1/2 <= basePoints * d < r + 1/2.
RoundedPoints(location) ==
  LET num == IF location.difficulty > 0 THEN location.difficulty ELSE 1
      den == IF location.difficulty > 0 THEN location.difficultyDen ELSE 1
      x2 == 2 * location.basePoints * num
  IN  CHOOSE r \in 0..(x2 + 1) : 2 * r * den - den <= x2 /\ x2 < 2 * r * den + den

\* C29 (points of a claim): an accepted claim awards round(basePoints * d),
\* d the difficulty when positive and 1 otherwise, never a negative number:
\* 200 for basePoints 100 and difficulty 2, 150 for basePoints 150 and
\* difficulty 0; the same value is the pointsAwarded of the response, the
\* points of the solved entry, the increment of the score and the points of
\* the claim record; with basePoints <= 0 the claim is not accepted and
\* writes nothing, and answers failed-precondition when no earlier check
\* fails.
PointsAsSpecified ==
  [][\A p \in Procs :
       ClaimBodyEnds(p) =>
         LET team == procs[p].loc.teamSnap
             location == procs[p].loc.locationSnap
             locationId == procs[p].req.locationId
             uid == procs[p].uid
         IN  /\ procs'[p].pc = "refresh" =>
                  LET points == RoundedPoints(location)
                  IN  /\ location.basePoints > 0
                      /\ points >= 0
                      /\ (location.basePoints = 100 /\ location.difficulty = 2
                            /\ location.difficultyDen = 1) => points = 200
                      /\ (location.basePoints = 150 /\ location.difficulty = 0) => points = 150
                      /\ procs'[p].out.pointsAwarded = points
                      /\ teams'[uid].solved[locationId].points = points
                      /\ teams'[uid].score = teams[uid].score + points
                      /\ \E c \in BagToSet(claims') :
                           /\ c.teamId = uid /\ c.locationId = locationId /\ c.points = points
                           /\ claims' = claims (+) SetToBag({c})
             /\ (team.exists /\ location.exists /\ location.basePoints <= 0) =>
                  /\ procs'[p].pc = "done" /\ procs'[p].code # "ok"
                  /\ teams' = teams /\ claims' = claims
                  /\ ClaimPasses(team, [location EXCEPT !.basePoints = 1], locationId,
                                 procs[p].req.providedKeyword, procs[p].req.providedTeamTag)
                       => procs'[p].code = "failed-precondition"]_vars

\* A claim on a location with basePoints 150 and difficulty 0 has been
\* accepted: 150 points in the response, in the solved entry and in the
\* claim record.
PointsWitness ==
  \E p \in Procs :
    LET l == procs[p].req.locationId
        u == procs[p].uid
    IN  /\ procs[p].op = "claim" /\ procs[p].pc = "refresh"
        /\ locations[l].basePoints = 150 /\ locations[l].difficulty = 0
        /\ procs[p].out.pointsAwarded = 150
        /\ teams[u].solved[l].points = 150
        /\ \E c \in BagToSet(claims) : c.teamId = u /\ c.locationId = l /\ c.points = 150

(***************************************************************************)
(* setUserRole with requests that do not pass its checks.                  *)
(***************************************************************************)
\* Requests of the admin for u2 that pass, and requests with one defect
\* each: a field of the team left empty, a match or a group that does not
\* exist, a group of another match, a target that does not resolve, a role
\* that is none of leader, admin, none.
RoleRequestsValid ==
  {RoleRequest("u2", "leader", LeaderFields("Blue", "tB", "m2", "g2")),
   RoleRequest("u2", "admin", NoFields),
   RoleRequest("u1", "none", NoFields)}

RoleRequestsInvalid ==
  {RoleRequest("u2", "leader", f) :
     f \in {LeaderFields(Missing, "tB", "m2", "g2"), LeaderFields("Blue", Missing, "m2", "g2"),
            LeaderFields("Blue", "tB", Missing, "g2"), LeaderFields("Blue", "tB", "m2", Missing),
            LeaderFields("Blue", "tB", "mX", "g2"), LeaderFields("Blue", "tB", "m2", "gX"),
            LeaderFields("Blue", "tB", "m1", "g2")}}
  \cup {RoleRequest("ghost", "leader", LeaderFields("Blue", "tB", "m2", "g2")),
        RoleRequest("ghost", "admin", NoFields),
        RoleRequest("u2", "bogus", NoFields),
        RoleRequest("u2", Missing, NoFields)}

InitRoles == InitSys(MaxProcs) /\ tok = NoTok

NextRoles ==
  \E p \in Procs :
    \/ SetUserRoleStep(p, {AdminUid}, RoleRequestsValid \cup RoleRequestsInvalid)
    \/ Refresh(p)
    \/ Publish(p)
    \/ Return(p)

SpecRoles == InitRoles /\ [][NextRoles]_vars

\* The error the request is to get: invalid-argument for an invalid role,
\* not-found for a target that does not resolve, invalid-argument for a
\* leader with an empty field, a match or group that does not exist or a
\* group of another match.
RoleRequestError(req) ==
  IF req.role \notin {"leader", "admin", "none"} THEN "invalid-argument"
  ELSE IF req.target \notin Users THEN "not-found"
  ELSE IF req.role = "leader"
          /\ \/ Missing \in {req.fields.teamName, req.fields.teamTag,
                             req.fields.matchId, req.fields.groupId}
             \/ req.fields.matchId \notin {m \in MatchIds : matches[m].exists}
             \/ req.fields.groupId \notin {g \in GroupIds : groups[g].exists}
             \/ groups[req.fields.groupId].matchId # req.fields.matchId
    THEN "invalid-argument"
  ELSE ""

\* C30 (setUserRole validates before it mutates): a request of the admin
\* with an invalid role, a target that does not resolve, or for a leader an
\* empty field, a missing match or group or a group of another match is
\* answered at once with its error, no team is written, no role is changed
\* and the board is not refreshed; and no setUserRole call answers with an
\* error once it has started to write.
ValidatesBeforeMutating ==
  [][\A p \in Procs :
       /\ \A req \in RoleRequestsInvalid :
            SetUserRoleCall(p, AdminUid, req) =>
              /\ procs'[p].pc = "done"
              /\ procs'[p].code = RoleRequestError(req)
              /\ teams' = teams /\ roleOf' = roleOf /\ leaderboard' = leaderboard
       /\ \A req \in RoleRequestsValid :
            SetUserRoleCall(p, AdminUid, req) =>
              (RoleRequestError(req) = "" /\ procs'[p].pc # "done")
       /\ (procs[p].op = "setUserRole" /\ AnswersIn(p)) => procs'[p].code = "ok"]_vars

\* The admin's one request so far was refused with invalid-argument: u2 has
\* no team and no role, and the board is the one of the start.
RefusedRoleWitness ==
  \E p \in Procs :
    /\ procs[p].op = "setUserRole" /\ procs[p].pc = "done"
    /\ procs[p].uid = AdminUid /\ procs[p].code = "invalid-argument"
    /\ calls = MaxProcs - 1
    /\ ~teams["u2"].exists /\ roleOf["u2"] = NoRole
    /\ leaderboard = LeaderboardSet(NoDoc, LeaderboardPayload(matches, groups, teams, locations,
                                                              settings, 0))

(***************************************************************************)
(* The refresh of a bulk import.                                           *)
(***************************************************************************)
\* The batches of SpecBulk, and a call without rows.
RowSeqsBatch == RowSeqsBulk \cup {<<>>}

NextBatch ==
  \E p \in Procs :
    \/ BulkImportStep(p, {AdminUid}, RowSeqsBatch)
    \/ Refresh(p)
    \/ Publish(p)
    \/ Return(p)

SpecBatch == InitBulk /\ [][NextBatch]_vars

\* The positions of bulkImportUsers inside its loop over the rows.
BulkLoopPcs == {"bi_row", "bi_claims"}

\* C31 (one refresh per bulk import): a handler of bulkImportUsers enters
\* the refresh only from the last row of its batch, leaves the loop for
\* nothing else, runs the refresh once (reads, then the write, then the
\* response) and writes the public leaderboard nowhere else; a call
\* rejected before the loop runs none.
OneRefreshPerBatch ==
  [][\A p \in Procs :
       /\ (procs[p].op = "bulkImportUsers" /\ procs[p].pc \in BulkLoopPcs
             /\ procs'[p] # procs[p]) =>
            /\ procs'[p].pc \in BulkLoopPcs \cup {"refresh"}
            /\ procs'[p].pc = "refresh" => procs[p].loc.index + 1 = Len(procs[p].req.rows)
            /\ procs'[p].pc \in BulkLoopPcs =>
                 procs'[p].loc.index \in {procs[p].loc.index, procs[p].loc.index + 1}
            /\ leaderboard' = leaderboard
       /\ (procs[p].op = "bulkImportUsers" /\ procs[p].pc = "refresh"
             /\ procs'[p] # procs[p]) =>
            (procs'[p].pc = "publish" /\ leaderboard' = leaderboard)
       /\ (procs[p].op = "bulkImportUsers" /\ procs[p].pc = "publish"
             /\ procs'[p] # procs[p]) =>
            (procs'[p].pc = "done" /\ procs'[p].code = "ok")
       /\ (procs[p].pc = "idle" /\ procs'[p].pc # "idle"
             /\ procs'[p].op = "bulkImportUsers") =>
            /\ leaderboard' = leaderboard
            /\ procs'[p].pc = "done" =>
                 (procs'[p].code = "invalid-argument" /\ teams' = teams /\ roleOf' = roleOf)
            /\ procs'[p].pc # "done" =>
                 (procs'[p].pc = "bi_row" /\ Len(procs'[p].req.rows) > 0)]_vars

\* A batch of three rows that all fail has been answered: the board was
\* refreshed once, at the time of the call, and nothing else changed.
BatchRefreshWitness ==
  \E p \in Procs :
    /\ procs[p].op = "bulkImportUsers" /\ procs[p].pc = "done" /\ procs[p].code = "ok"
    /\ Len(procs[p].req.rows) = MaxBulkRows
    /\ procs[p].out.successCount = 0 /\ procs[p].out.failureCount = MaxBulkRows
    /\ leaderboard.updatedAt = now

(***************************************************************************)
(* setTeamGroup with requests that pass and requests that do not.          *)
(***************************************************************************)
\* Team u1 in m1/g1 with nothing or L1 solved, no team of u2.
InitGroup ==
  /\ now = 1
  /\ locations = LocationDocs
  /\ matches = MatchDocs
  /\ groups = GroupDocs
  /\ \E solved \in {BoardSolved(NoTime, NoTime), BoardSolved(0, NoTime)} :
       teams = [u \in Users |->
                  IF u = "u1" THEN BoardTeam("u1", "Red", "tA", "m1", "g1", solved)
                  ELSE NoDoc]
  /\ roleOf = [u \in Users |-> IF u = AdminUid THEN "admin"
                               ELSE IF u = "u1" THEN "leader" ELSE NoRole]
  /\ settings = SettingsDoc
  /\ claims = BoardClaims(teams)
  /\ leaderboard = LeaderboardSet(NoDoc, LeaderboardPayload(matches, groups, teams, locations,
                                                            settings, 0))
  /\ procs = [p \in Procs |-> IdleProc]
  /\ calls = MaxProcs
  /\ tok = NoTok

\* A move of u1 that passes, and requests with one defect each: no team, no
\* such match, no such group, a group of another match.
TeamGroupRequestsGroup ==
  {[teamId |-> "u1", matchId |-> "m2", groupId |-> "g2"],
   [teamId |-> "u2", matchId |-> "m2", groupId |-> "g2"],
   [teamId |-> "u1", matchId |-> "mX", groupId |-> "g2"],
   [teamId |-> "u1", matchId |-> "m2", groupId |-> "gX"],
   [teamId |-> "u1", matchId |-> "m1", groupId |-> "g2"]}

ClaimRequestsGroup ==
  {[token |-> ValidToken1, providedKeyword |-> "k1", providedTeamTag |-> "tA"]}

NextGroup ==
  \E p \in Procs :
    \/ SetTeamGroupStep(p, {AdminUid}, TeamGroupRequestsGroup)
    \/ ClaimStep(p, {"u1"}, ClaimRequestsGroup)
    \/ Refresh(p)
    \/ Publish(p)
    \/ Return(p)

SpecGroup == InitGroup /\ [][NextGroup]_vars

\* The error the request is to get on the stored documents.
TeamGroupRequestError(req) ==
  IF ~(req.teamId \in DOMAIN teams /\ teams[req.teamId].exists) THEN "not-found"
  ELSE IF \/ req.matchId \notin {m \in MatchIds : matches[m].exists}
          \/ req.groupId \notin {g \in GroupIds : groups[g].exists}
          \/ groups[req.groupId].matchId # req.matchId
    THEN "invalid-argument"
  ELSE ""

\* The fields of a team that setTeamGroup may change.
TeamGroupFields == {"matchId", "matchName", "groupId", "groupName", "updatedAt"}

\* C32 (setTeamGroup): not-found when the team does not exist,
\* invalid-argument when the match or the group does not exist or the group
\* belongs to another match, nothing written in these cases; on success only
\* matchId, matchName, groupId, groupName and updatedAt of the team change,
\* and the refresh follows before the response.
TeamGroupFrame ==
  [][\A p \in Procs :
       /\ (procs[p].op = "setTeamGroup" /\ procs[p].pc = "stg_get"
             /\ procs'[p] # procs[p]) =>
            LET err == TeamGroupRequestError(procs[p].req)
            IN  /\ err # "" => (procs'[p].pc = "done" /\ procs'[p].code = err)
                /\ err = "" => procs'[p].pc = "stg_update"
                /\ teams' = teams /\ leaderboard' = leaderboard
       /\ (procs[p].op = "setTeamGroup" /\ procs[p].pc = "stg_update"
             /\ procs'[p] # procs[p]) =>
            LET req == procs[p].req
                old == teams[req.teamId]
                new == teams'[req.teamId]
            IN  /\ procs'[p].pc = "refresh"
                /\ \A u \in Users \ {req.teamId} : teams'[u] = teams[u]
                /\ DOMAIN new = DOMAIN old
                /\ \A f \in DOMAIN old \ TeamGroupFields : new[f] = old[f]
                /\ new.matchId = req.matchId /\ new.groupId = req.groupId
                /\ new.matchName = matches[req.matchId].name
                /\ new.groupName = groups[req.groupId].name
                /\ new.updatedAt = now
                /\ roleOf' = roleOf /\ claims' = claims /\ leaderboard' = leaderboard
       /\ (procs[p].op = "setTeamGroup" /\ AnswersIn(p) /\ procs'[p].code = "ok") =>
            procs[p].pc = "publish"]_vars

\* Team u1 holds 200 points for L1 and has been moved to m2/g2: score,
\* solved, tag and name are as before, and the board has been refreshed.
TeamGroupWitness ==
  \E p \in Procs :
    /\ procs[p].op = "setTeamGroup" /\ procs[p].pc = "done" /\ procs[p].code = "ok"
    /\ teams["u1"].matchId = "m2" /\ teams["u1"].groupId = "g2"
    /\ teams["u1"].score = 200 /\ Loc1 \in DOMAIN teams["u1"].solved
    /\ teams["u1"].teamTag = "tA" /\ teams["u1"].name = "Red"
    /\ leaderboard.updatedAt = now

(***************************************************************************)
(* The elapsed time of an entry.                                           *)
(***************************************************************************)
\* Group g1 of match m1 with no start time, started at 0 or starting at
\* MaxNow; team u1 in g1 or g2 with L1 solved at some instant or not at all;
\* team u2 absent or without match and group, with L1 solved or not.
InitElapsed ==
  /\ now \in 0..MaxNow
  /\ locations = LocationDocs
  /\ matches = MatchDocs
  /\ \E st \in {NoTime, 0, MaxNow} : groups = [GroupDocs EXCEPT !["g1"].startAt = st]
  /\ \E t1 \in {BoardTeam("u1", "Red", "tA", pl[1], pl[2], BoardSolved(at, NoTime)) :
                  pl \in BoardPlacements, at \in {NoTime} \cup 0..MaxNow},
        t2 \in {NoDoc} \cup {LegacyTeam("u2", "Blue", "tB", solved) :
                               solved \in {BoardSolved(NoTime, NoTime), BoardSolved(0, NoTime)}} :
       teams = [u \in Users |-> IF u = "u1" THEN t1 ELSE IF u = "u2" THEN t2 ELSE NoDoc]
  /\ \A u \in Users : teams[u].exists => teams[u].updatedAt <= now
  /\ roleOf = [u \in Users |-> IF u = AdminUid THEN "admin"
                               ELSE IF teams[u].exists THEN "leader" ELSE NoRole]
  /\ settings = SettingsDoc
  /\ claims = BoardClaims(teams)
  /\ leaderboard = LeaderboardSet(NoDoc, LeaderboardPayload(matches, groups, teams, locations,
                                                            settings, now))
  /\ procs = [p \in Procs |-> IdleProc]
  /\ calls = MaxGateCalls
  /\ tok = NoTok

NextElapsed ==
  \/ \E p \in Procs :
       \/ SetTeamGroupStep(p, {AdminUid}, TeamGroupRequestsBoard)
       \/ ClaimStep(p, {"u1"}, ClaimRequestsGroup)
       \/ Refresh(p)
       \/ Publish(p)
       \/ Return(p)
  \/ Tick

SpecElapsed == InitElapsed /\ [][NextElapsed]_vars

\* max(0, round(ms / 1000)): 0 for ms <= 0, else the integer r with
\* r - 1/2 <= ms / 1000 < r + 1/2.
RoundedSeconds(ms) ==
  IF ms <= 0 THEN 0
  ELSE CHOOSE r \in 0..(ms + 1) : 2000 * r - 1000 <= 2 * ms /\ 2 * ms < 2000 * r + 1000

\* The start time of the group an entry is listed under, NoTime for the
\* sentinel group.
StartAtOf(groupId) ==
  IF groupId \in GroupIds /\ groups[groupId].exists THEN groups[groupId].startAt ELSE NoTime

\* The scenario of the specification: team A in group G started at T0, one
\* location of 50 points solved 90 s later.
ScenarioEntry ==
  LET t0 == 4
      at == t0 + 180
      gs == [GroupDocs EXCEPT !["g1"].startAt = t0]
      ls == [LocationDocs EXCEPT ![Loc1].basePoints = 50, ![Loc1].difficulty = 1]
      solved == [l \in {Loc1} |-> [at |-> at, points |-> computePoints(ls[Loc1])]]
      team == [BoardTeam("u1", "A", "tA", "m1", "g1", <<>>) EXCEPT
                 !.score = 50, !.hasSolved = TRUE, !.solved = solved]
  IN  EntryOf(MatchDocs, gs, ls, "u1", team)

\* C33 (elapsed seconds): the elapsedSeconds of every entry a run computes
\* is max(0, round((lastSolveAt - startAt) / 1000)) when the group of the
\* entry has a startAt and the entry a lastSolveAt, and null otherwise; it
\* is never negative; and the entry of the scenario has elapsedSeconds 90
\* and score 50.
ElapsedAsSpecified ==
  [][\A p \in Procs :
       RefreshStepOf(p) =>
         /\ \A r \in BoardRows(procs'[p].loc.matches) :
              LET startAt == StartAtOf(r.groupId)
                  e == r.entry
              IN  /\ (startAt # NoTime /\ e.lastSolveAt # NoTime) =>
                       /\ e.elapsedSeconds
                            = RoundedSeconds((e.lastSolveAt - startAt) * TickMillis)
                       /\ e.elapsedSeconds >= 0
                  /\ (startAt = NoTime \/ e.lastSolveAt = NoTime) =>
                       e.elapsedSeconds = NoTime
         /\ ScenarioEntry.elapsedSeconds = 90 /\ ScenarioEntry.score = 50]_vars

\* Team u1 solved L1 before its group started: the entry computed shows
\* elapsedSeconds 0.
ElapsedWitness ==
  \E p \in Procs :
    /\ procs[p].pc = "publish"
    /\ \E r \in RowsOfTeam(procs[p].loc.matches, "u1") :
         /\ r.groupId = "g1"
         /\ groups["g1"].startAt # NoTime
         /\ r.entry.lastSolveAt # NoTime
         /\ r.entry.lastSolveAt < groups["g1"].startAt
         /\ r.entry.elapsedSeconds = 0

(***************************************************************************)
(* The structure of the matches array.                                     *)
(***************************************************************************)
\* The order fields the console wrote: any number up to the sentinel's.
ShapeMatchOrders == {<<1, 2>>, <<2, 1>>, <<1, 1>>, <<MaxSafeInteger, 1>>}
ShapeGroupOrders == {<<1, 2>>, <<2, 1>>, <<1, 1>>}

\* The hierarchy as the console leaves it: either group created under
\* either match, group g2 possibly bare of a matchId or deleted, match m2
\* possibly deleted under its groups.
ShapeHierarchies ==
  {[ms |-> [MatchDocs EXCEPT !["m1"].order = mo[1], !["m2"].order = mo[2],
                             !["m2"].exists = m2],
    gs |-> [GroupDocs EXCEPT !["g1"].order = go[1], !["g2"].order = go[2],
                             !["g1"].matchId = p1, !["g2"].matchId = p2,
                             !["g2"].exists = g2]] :
     mo \in ShapeMatchOrders, go \in ShapeGroupOrders, m2 \in BOOLEAN, g2 \in BOOLEAN,
     p1 \in MatchIds, p2 \in MatchIds \cup {NoMatch}}

InitShape ==
  /\ now = 1
  /\ locations = LocationDocs
  /\ \E h \in ShapeHierarchies : matches = h.ms /\ groups = h.gs
  /\ \E t2 \in {NoDoc, LegacyTeam("u2", "Blue", "tB", BoardSolved(0, NoTime))}
                \cup {BoardTeam("u2", "Blue", "tB", groups["g2"].matchId, "g2", <<>>) :
                        x \in {y \in {1} : groups["g2"].matchId # NoMatch}} :
       teams = [u \in Users |->
                  IF u = "u1"
                    THEN BoardTeam("u1", "Red", "tA", groups["g1"].matchId, "g1",
                                   BoardSolved(0, NoTime))
                  ELSE IF u = "u2" THEN t2 ELSE NoDoc]
  /\ roleOf = [u \in Users |-> IF u = AdminUid THEN "admin"
                               ELSE IF teams[u].exists THEN "leader" ELSE NoRole]
  /\ settings = SettingsDoc
  /\ claims = BoardClaims(teams)
  /\ leaderboard = LeaderboardSet(NoDoc, LeaderboardPayload(matches, groups, teams, locations,
                                                            settings, now))
  /\ procs = [p \in Procs |-> IdleProc]
  /\ calls = MaxGateCalls
  /\ tok = NoTok

TeamGroupRequestsShape ==
  {[teamId |-> t, matchId |-> pl[1], groupId |-> pl[2]] :
     t \in {"u1", "u2"}, pl \in {<<"m1", "g1">>, <<"m1", "g2">>, <<"m2", "g2">>}}

NextShape ==
  \E p \in Procs :
    \/ SetTeamGroupStep(p, {AdminUid}, TeamGroupRequestsShape)
    \/ Refresh(p)
    \/ Publish(p)
    \/ Return(p)

SpecShape == InitShape /\ [][NextShape]_vars

\* The elements of a sequence are in ascending order of their order
\* field.
AscendingByOrder(xs) ==
  \A i, j \in 1..Len(xs) : i < j => xs[i].order <= xs[j].order

PlacesOfTeam(ms, t) ==
  {pos \in UNION {UNION {{<<i, j, k>> : k \in 1..Len(ms[i].groups[j].entries)} :
                          j \in 1..Len(ms[i].groups)} :
                   i \in 1..Len(ms)} :
     ms[pos[1]].groups[pos[2]].entries[pos[3]].teamId = t}

\* C35 (every team listed once): in the matches array a run computes, every
\* stored team has exactly one entry, whether or not its matchId and groupId
\* name a stored match and a group of the map, and a uid without a team
\* document has none.
EveryTeamListedOnce ==
  [][\A p \in Procs :
       RefreshStepOf(p) =>
         \A t \in Users :
           Cardinality(PlacesOfTeam(procs'[p].loc.matches, t))
             = IF teams[t].exists THEN 1 ELSE 0]_vars

\* A run computed a board for two stored teams, u1 in a group whose match
\* is deleted and u2 in a group of the map: u1 is listed under the sentinel
\* group, u2 under its group.
ListedOnceWitness ==
  \E p \in Procs :
    /\ procs[p].pc = "publish"
    /\ teams["u1"].exists /\ teams["u2"].exists
    /\ teams["u1"].groupId \in GroupIds
    /\ ~matches[groups[teams["u1"].groupId].matchId].exists
    /\ \E pos \in PlacesOfTeam(procs[p].loc.matches, "u1") :
         procs[p].loc.matches[pos[1]].groups[pos[2]].id = FallbackId
    /\ \E pos \in PlacesOfTeam(procs[p].loc.matches, "u2") :
         procs[p].loc.matches[pos[1]].groups[pos[2]].id = teams["u2"].groupId

\* The entry of team t on a stored board.
EntryOfTeam(ms, t) == (CHOOSE r \in RowsOfTeam(ms, t) : TRUE).entry

\* C36 (an accepted claim shows in the ranking): when the refresh of an
\* accepted claim writes the board, the entry of the claiming team has a
\* score higher by pointsAwarded and a solvedCount higher by one than its
\* entry on the board stored before.
ClaimReflected ==
  [][\A p \in Procs :
       (PublishStepOf(p) /\ procs[p].op = "claim") =>
         LET before == EntryOfTeam(leaderboard.matches, procs[p].uid)
             after == EntryOfTeam(leaderboard'.matches, procs[p].uid)
         IN  /\ after.score = before.score + procs[p].out.pointsAwarded
             /\ after.solvedCount = before.solvedCount + 1]_vars

\* now lies in the freeze window freezeAt..eventEnd of the stored settings.
InFreezeWindow ==
  /\ settings.exists /\ settings.freezeAt # NoTime /\ settings.eventEnd # NoTime
  /\ now >= settings.freezeAt /\ now < settings.eventEnd

\* C37 (the freeze shows on the board): when setFreezeState(frozen) returns
\* ok with no other request in flight, the stored board is masked after
\* setFreezeState(true), and not masked after setFreezeState(false) outside
\* the freeze window.
FreezeStateShown ==
  [][\A p \in Procs :
       (/\ procs[p].op = "setFreezeState" /\ procs[p].pc = "done" /\ procs[p].code = "ok"
        /\ procs'[p].pc = "idle"
        /\ \A q \in Procs \ {p} : procs[q].pc = "idle") =>
         /\ procs[p].req.frozen = "true" => leaderboard.masked = TRUE
         /\ (procs[p].req.frozen = "false" /\ ~InFreezeWindow) =>
              leaderboard.masked = FALSE]_vars

\* The order of the phases of an event.
PhaseRank(phase) ==
  IF phase = "pre" THEN 1 ELSE IF phase = "running" THEN 2
  ELSE IF phase = "frozen" THEN 3 ELSE IF phase = "finished" THEN 4 ELSE 0

\* C38 (the phase never moves backwards): for settings with eventStart and
\* eventEnd set, the phase computed at an instant is not before the phase
\* of any earlier instant in the order pre, running, frozen, finished,
\* however eventStart, freezeAt and eventEnd are placed; once finished at an
\* earlier instant, finished.
PhaseNeverBack ==
  \A c \in PhasesComputed :
    ~PhaseInputMissing(c.runtime) =>
      \A n \in 0..c.now :
        LET earlier == computePhaseState(c.runtime, n).phase IN
        /\ PhaseRank(earlier) >= 1
        /\ PhaseRank(earlier) <= PhaseRank(c.state.phase)
        /\ earlier = "finished" => c.state.phase = "finished"

\* The event ends before it starts: a render finds it finished at an
\* instant after one at which it was pre.
PhaseForwardWitness ==
  \E c \in PhasesComputed :
    /\ ~PhaseInputMissing(c.runtime)
    /\ c.runtime.eventEnd < c.runtime.eventStart
    /\ c.state.phase = "finished"
    /\ \E n \in 0..c.now : computePhaseState(c.runtime, n).phase = "pre"

(***************************************************************************)
(* The match and the group of the teams the three admin operations write.  *)
(***************************************************************************)
\* A leader of m2/g2, and leaders of a match that does not exist, of a group
\* that does not exist and of a group of another match.
RoleRequestsPlacement ==
  {RoleRequest("u2", "leader", LeaderFields("Blue", "tB", pl[1], pl[2])) :
     pl \in {<<"m2", "g2">>, <<"mX", "g2">>, <<"m2", "gX">>, <<"m1", "g2">>}}

\* CSV files of up to MaxRows rows: the leader of m2/g2 and the leader of a
\* group of another match.
RowSeqsPlacement ==
  UNION {[1..n -> {RoleRequest("u2", "leader", LeaderFields("Blue", "tB", m, "g2")) :
                     m \in MatchIds}] : n \in 1..MaxRows}

\* Team u1 placed by setUserRole or moved by setTeamGroup, with or without
\* a solve; team u2 absent or placed in m1/g1.
InitPlacement ==
  /\ now = 1
  /\ locations = LocationDocs
  /\ matches = MatchDocs
  /\ groups = GroupDocs
  /\ \E pl \in BoardPlacements,
        solved \in {BoardSolved(NoTime, NoTime), BoardSolved(0, NoTime)},
        t2 \in {NoDoc, BoardTeam("u2", "Blue", "tB", "m1", "g1", <<>>)} :
       teams = [u \in Users |->
                  IF u = "u1" THEN BoardTeam("u1", "Red", "tA", pl[1], pl[2], solved)
                  ELSE IF u = "u2" THEN t2 ELSE NoDoc]
  /\ roleOf = [u \in Users |-> IF u = AdminUid THEN "admin"
                               ELSE IF teams[u].exists THEN "leader" ELSE NoRole]
  /\ settings = SettingsDoc
  /\ claims = BoardClaims(teams)
  /\ leaderboard = LeaderboardSet(NoDoc, LeaderboardPayload(matches, groups, teams, locations,
                                                            settings, 0))
  /\ procs = [p \in Procs |-> IdleProc]
  /\ calls = MaxGateCalls
  /\ tok = NoTok

NextPlacement ==
  \E p \in Procs :
    \/ SetUserRoleStep(p, {AdminUid}, RoleRequestsPlacement)
    \/ SetTeamGroupStep(p, {AdminUid}, TeamGroupRequestsGroup)
    \/ BulkImportStep(p, {AdminUid}, RowSeqsPlacement)
    \/ Refresh(p)
    \/ Publish(p)
    \/ Return(p)

SpecPlacement == InitPlacement /\ [][NextPlacement]_vars

\* C39 (teams are placed in the hierarchy): while the matches and groups
\* are as created, every stored team has a groupId that names a stored
\* group and a matchId that names a stored match, and the matchId of that
\* group is the matchId of the team.
TeamsPlaced ==
  (matches = MatchDocs /\ groups = GroupDocs) =>
    \A u \in Users :
      teams[u].exists =>
        /\ teams[u].groupId \in GroupIds /\ groups[teams[u].groupId].exists
        /\ teams[u].matchId \in MatchIds /\ matches[teams[u].matchId].exists
        /\ groups[teams[u].groupId].matchId = teams[u].matchId

\* A handler has written the team of u2 into m2/g2 next to the team of u1.
PlacedWitness ==
  /\ teams["u1"].exists /\ teams["u2"].exists
  /\ teams["u2"].matchId = "m2" /\ teams["u2"].groupId = "g2"
  /\ \E p \in Procs : procs[p].pc = "done" /\ procs[p].code = "ok"

====
